---- MODULE Spec2Model ----
(***************************************************************************)
(* State machine of the image-stitch workstation: the App component's      *)
(* asset graph (layers, groups, stitch queue), the ImageCropper's region   *)
(* interaction state machine and the GroupStitchView's derived virtual     *)
(* image.  One action per React handler, effect or asynchronous callback.  *)
(*                                                                         *)
(* Conventions: an id is a positive integer handed out by crypto.randomUUID*)
(* (a fresh one on every call); 0 stands for null/undefined ids; a nullable*)
(* object is a sequence of length 0 (null) or 1.  Coordinates are integer  *)
(* percentages.                                                            *)
(***************************************************************************)
EXTENDS Integers, Sequences, FiniteSets, TLC

\* ---------------------------------------------------------------- bounds
MaxAssets == 5      \* layers and groups ever created
MaxRegions == 2     \* regions ever created
MaxQueue == 2       \* stitch items ever enqueued
MaxPending == 1     \* asynchronous reads of one kind in flight
MaxGestures == 3    \* pointer-downs on the canvas per behaviour
GestureLayers == 1  \* layers imported in SpecGesture
GraphLayers == 3    \* layers imported in SpecGraph
GraphRegions == 1   \* regions drawn in SpecMember and in SpecQueue
QueueLayers == 2    \* layers imported in SpecQueue
MaxInflight == 2    \* generate() runs of the group view in flight
MaxSide == 21        \* largest width and height of a lone stitched image
MaxPairSide == 3     \* largest width and height of images stitched together
MaxSources == 4      \* sources of one raster operation
MaxDim == 3          \* largest width and height of an image in the justified layout
MaxImages == 3       \* images in the justified layout
MaxRowImages == 7    \* images in the justified layout of narrow images
MaxSmartFiles == 2   \* files picked in the smart stitch view
MaxSmartRuns == 3    \* runStitch() calls of the smart stitch view that reach generateSmartStitch

None == <<>>
Some(v) == <<v>>

VARIABLES
  layers,               \* App: ImageLayer[]
  groups,               \* App: AssetGroup[]
  stitchItems,          \* App: StitchItem[]
  activeAssetId,        \* App: layer id or group id, 0 = null
  selectedLibraryIds,   \* App: Set<string>
  isSelectionMode,      \* App
  draggedLibraryItemId, \* App: 0 = null
  nextId,               \* crypto.randomUUID: the next fresh id per kind of object
  pendingImports,       \* processFile: readers/decoders not yet loaded
  pendingSelections,    \* GroupStitchView.handleStitchSelections runs in flight
  activeCropId,         \* ImageCropper, 0 = null
  optimisticCrop,       \* ImageCropper: None or Some(CropRegion)
  interaction,          \* ImageCropper: None or Some(interaction record)
  tempSelection,        \* ImageCropper: None or Some([x, y, width, height])
  pendingReads,         \* FileReaders started by handleFileChange, not yet loaded
  stitchedData,         \* GroupStitchView: None or Some(virtual image)
  isArrangeMode,        \* GroupStitchView
  generations,          \* GroupStitchView: generate() runs in flight
  gestures,             \* number of pointer-downs so far (bounds the exploration)
  raster,               \* imageUtils: the raster operation in progress, if any
  activeTab,            \* App: "editor" or "stitch"
  renderedImages,       \* StitchView: the cache, "layerId-cropId" -> image
  loadRuns,             \* StitchView: loadImages() runs in flight
  downloaded,           \* the image of the last download link clicked
  stitchedPreviewSrc,   \* StitchView: None or Some(preview image)
  previewRuns,          \* StitchView: generatePreview() runs in flight
  smartView             \* SmartStitchView: its state and its runStitch() runs in flight

appVars == <<layers, groups, stitchItems, activeAssetId, selectedLibraryIds,
             isSelectionMode, draggedLibraryItemId, nextId>>
asyncVars == <<pendingImports, pendingSelections, pendingReads>>
cropperVars == <<activeCropId, optimisticCrop, interaction, tempSelection>>
viewVars == <<stitchedData, isArrangeMode, generations>>
stitchVars == <<activeTab, renderedImages, loadRuns, downloaded, stitchedPreviewSrc, previewRuns>>
vars == <<layers, groups, stitchItems, activeAssetId, selectedLibraryIds,
          isSelectionMode, draggedLibraryItemId, nextId, pendingImports,
          pendingSelections, activeCropId,
          optimisticCrop, interaction, tempSelection, pendingReads,
          stitchedData, isArrangeMode, generations, gestures, raster, smartView,
          activeTab, renderedImages, loadRuns, downloaded, stitchedPreviewSrc, previewRuns>>

\* ------------------------------------------------------- sequence helpers
Range(s) == {s[i] : i \in DOMAIN s}

RECURSIVE FilterSeq(_, _)
FilterSeq(s, keep) ==
  IF s = <<>> THEN <<>>
  ELSE IF Head(s) \in keep THEN <<Head(s)>> \o FilterSeq(Tail(s), keep)
       ELSE FilterSeq(Tail(s), keep)

\* Array.prototype.filter on a record array, by the records' ids
RECURSIVE FilterOutIds(_, _)
FilterOutIds(s, ids) ==
  IF s = <<>> THEN <<>>
  ELSE IF Head(s).id \in ids THEN FilterOutIds(Tail(s), ids)
       ELSE <<Head(s)>> \o FilterOutIds(Tail(s), ids)

\* Array.prototype.indexOf, 1-based, 0 when absent
RECURSIVE IndexOf(_, _)
IndexOf(s, v) ==
  IF s = <<>> THEN 0
  ELSE IF Head(s) = v THEN 1
       ELSE LET r == IndexOf(Tail(s), v) IN IF r = 0 THEN 0 ELSE r + 1

\* splice(i, 1) / splice(i, 0, v) with 1-based i inside the array
RemoveAt(s, i) == SubSeq(s, 1, i - 1) \o SubSeq(s, i + 1, Len(s))
InsertAt(s, i, v) == SubSeq(s, 1, i - 1) \o <<v>> \o SubSeq(s, i, Len(s))

Min(a, b) == IF a < b THEN a ELSE b
Max(a, b) == IF a > b THEN a ELSE b
Abs(a) == IF a < 0 THEN -a ELSE a

\* ------------------------------------------------------------ derived state
LayerIds == {layers[i].id : i \in DOMAIN layers}
GroupIds == {groups[i].id : i \in DOMAIN groups}

\* layers.find(l => l.id === id) as a nullable
FindIn(s, id) ==
  IF \E i \in DOMAIN s : s[i].id = id
  THEN Some(s[CHOOSE i \in DOMAIN s : s[i].id = id /\ \A j \in 1..(i - 1) : s[j].id # id])
  ELSE None

activeLayer == FindIn(layers, activeAssetId)
activeGroup == FindIn(groups, activeAssetId)

\* Library tree (renderGroup, rootGroups/rootLayers): a group is rendered when it
\* is a root or its parent is rendered; a layer when it has no groupId or is
\* listed by a rendered group.
RECURSIVE RenderedGroups(_, _)
RenderedGroups(gs, n) ==
  IF n = 0 THEN {gs[i].id : i \in {j \in DOMAIN gs : gs[j].parentGroupId = 0}}
  ELSE LET up == RenderedGroups(gs, n - 1)
       IN up \cup {gs[i].id : i \in {j \in DOMAIN gs : gs[j].parentGroupId \in up}}

VisibleGroupIds == RenderedGroups(groups, Len(groups))
VisibleLayerIds ==
  {layers[i].id : i \in {j \in DOMAIN layers : layers[j].groupId = 0}}
  \cup {id \in LayerIds : \E i \in DOMAIN groups :
          groups[i].id \in VisibleGroupIds /\ id \in Range(groups[i].layerIds)}

InVisibleGroup(id) ==
  \E i \in DOMAIN groups : groups[i].id \in VisibleGroupIds /\ id \in Range(groups[i].layerIds)

\* ------------------------------------------------------ pixel composition
\* An image is identified by what was drawn into it.  A layer's raw src is
\* identified by the layer's id (every import or cut makes its own raster).
RECURSIVE Overlays(_)
Overlays(crops) ==
  IF crops = <<>> THEN <<>>
  ELSE IF Head(crops).replacementSrc # 0
       THEN <<[x |-> Head(crops).x, y |-> Head(crops).y,
               width |-> Head(crops).width, height |-> Head(crops).height,
               src |-> Head(crops).replacementSrc]>> \o Overlays(Tail(crops))
       ELSE Overlays(Tail(crops))

\* generateCompositeImage: the base raster, then every replacement in list order
generateCompositeImage(layer) == [base |-> layer.id, overlays |-> Overlays(layer.crops)]
RawSrc(layer) == [base |-> layer.id, overlays |-> <<>>]

\* sources that ignore the replacements: every member's raw src
RECURSIVE RawGroupSources(_, _)
RawGroupSources(layerIds, ls) ==
  IF layerIds = <<>> THEN <<>>
  ELSE LET l == FindIn(ls, Head(layerIds))
       IN (IF l = None THEN <<>> ELSE <<RawSrc(l[1])>>) \o RawGroupSources(Tail(layerIds), ls)

\* GroupStitchView.generate, the sources: members in layerIds order, missing
\* layers dropped, a composite for a member with replacements
RECURSIVE GroupSources(_, _)
GroupSources(layerIds, ls) ==
  IF layerIds = <<>> THEN <<>>
  ELSE LET l == FindIn(ls, Head(layerIds))
       IN (IF l = None THEN <<>>
           ELSE IF \E i \in DOMAIN l[1].crops : l[1].crops[i].replacementSrc # 0
                THEN <<generateCompositeImage(l[1])>>
                ELSE <<RawSrc(l[1])>>)
          \o GroupSources(Tail(layerIds), ls)

\* generateStitchedCanvas: the sources drawn left to right in input order
generateStitchedCanvas(items) == [items |-> items]

\* ------------------------------------------------- component mount structure
\* App's editor pane: GroupStitchView for an active group, else ImageCropper
\* for an active layer, else the placeholder.
MountKind(ls, gs, a) ==
  IF \E i \in DOMAIN gs : gs[i].id = a THEN "group"
  ELSE IF \E i \in DOMAIN ls : ls[i].id = a THEN "layer"
  ELSE "none"

\* Which ImageCropper instance is on screen: the layer one, the one inside the
\* GroupStitchView (crop mode with a stitched image), or none.
CropperKey(kind, sd, arr) ==
  IF kind = "layer" THEN "layer"
  ELSE IF kind = "group" /\ ~arr /\ sd # None THEN "proxy"
  ELSE "off"

\* the editor pane is rendered on the editor tab only
EditorKind(ls, gs, a, tab) == IF tab = "editor" THEN MountKind(ls, gs, a) ELSE "none"

CurrentCropperKey ==
  CropperKey(EditorKind(layers, groups, activeAssetId, activeTab), stitchedData, isArrangeMode)

\* The `layer` prop of the mounted ImageCropper (proxyLayer for a group)
CropperLayer ==
  IF CurrentCropperKey = "layer" THEN activeLayer[1]
  ELSE IF CurrentCropperKey = "proxy"
       THEN [id |-> activeGroup[1].id, groupId |-> -1, crops |-> activeGroup[1].crops]
       ELSE [id |-> 0, groupId |-> 0, crops |-> <<>>]

ResetCropper ==
  /\ activeCropId' = 0
  /\ optimisticCrop' = None
  /\ interaction' = None
  /\ tempSelection' = None

\* StitchView, the images of the queue.  A region's image is its replacement
\* file, or the region cut out of its owner's raster.
ReplacementImage(file) == [file |-> file, source |-> <<>>, region |-> <<>>]
CroppedImage(source, crop) ==
  [file |-> 0, source |-> <<source>>, region |-> <<crop.x, crop.y, crop.width, crop.height>>]

\* loadImages, groupSources: the src of every member, missing layers dropped
RECURSIVE QueueGroupSources(_, _)
QueueGroupSources(layerIds, ls) ==
  IF layerIds = <<>> THEN <<>>
  ELSE (IF FindIn(ls, Head(layerIds)) = None THEN <<>>
        ELSE <<RawSrc(FindIn(ls, Head(layerIds))[1])>>)
       \o QueueGroupSources(Tail(layerIds), ls)

CacheKey(item) == <<item.layerId, item.cropId>>
Put(cache, key, src) ==
  [k \in DOMAIN cache \cup {key} |-> IF k = key THEN src ELSE cache[k]]

\* loadImages, the src of one queue item: None when nothing is stored for it
ItemSrc(item, ls, gs) ==
  LET layer == FindIn(ls, item.layerId)
      group == FindIn(gs, item.layerId)
  IN IF layer # None
     THEN LET crop == FindIn(layer[1].crops, item.cropId)
          IN IF crop = None THEN None
             ELSE IF crop[1].replacementSrc # 0
             THEN Some(ReplacementImage(crop[1].replacementSrc))
             ELSE Some(CroppedImage(RawSrc(layer[1]), crop[1]))
     ELSE IF group # None
     THEN LET crop == FindIn(group[1].crops, item.cropId)
              groupSources == QueueGroupSources(group[1].layerIds, ls)
          IN IF crop = None THEN None
             ELSE IF crop[1].replacementSrc # 0
             THEN Some(ReplacementImage(crop[1].replacementSrc))
             ELSE IF groupSources # <<>>
             THEN Some(CroppedImage(generateStitchedCanvas(groupSources), crop[1]))
             ELSE None
     ELSE None

\* loadImages, one item: a key already in the cache is skipped
ItemSrcCached(cache, item, ls, gs) ==
  IF CacheKey(item) \in DOMAIN cache THEN None ELSE ItemSrc(item, ls, gs)

\* loadImages: newCache after the loop over the queue
RECURSIVE loadImages(_, _, _, _)
loadImages(cache, items, ls, gs) ==
  IF items = <<>> THEN cache
  ELSE LET src == ItemSrcCached(cache, Head(items), ls, gs)
       IN loadImages(IF src = None THEN cache ELSE Put(cache, CacheKey(Head(items)), src[1]),
                     Tail(items), ls, gs)

\* the run reaches an await that needs a decode: a cropImage or a group stitch
Awaits(cache, items, ls, gs) ==
  \E i \in DOMAIN items :
    LET src == ItemSrcCached(cache, items[i], ls, gs)
    IN src # None /\ src[1].file = 0

\* generatePreview, the sources: the cached image of every queue item that has one
RECURSIVE PreviewSources(_, _)
PreviewSources(cache, items) ==
  IF items = <<>> THEN <<>>
  ELSE (IF CacheKey(Head(items)) \in DOMAIN cache THEN <<cache[CacheKey(Head(items))]>> ELSE <<>>)
       \o PreviewSources(cache, Tail(items))

\* The preview effect (deps [stitchItems, renderedImages]) run with cache and
\* items: an empty queue clears the preview at once, a cache that lacks an
\* item leaves it, otherwise a generation starts (stored by PreviewDone).
generatePreview(cache, items, preview, runs) ==
  IF items = <<>>
  THEN /\ stitchedPreviewSrc' = None
       /\ previewRuns' = runs
  ELSE IF Len(PreviewSources(cache, items)) # Len(items)
  THEN /\ stitchedPreviewSrc' = preview
       /\ previewRuns' = runs
  ELSE /\ stitchedPreviewSrc' = preview
       /\ previewRuns' = runs \cup {generateStitchedCanvas(PreviewSources(cache, items))}

\* The StitchView part of a render with the queue `items` (queued = it is a
\* new array): the view is mounted on the stitch tab with an empty cache and no
\* preview; its loadImages effect (deps [stitchItems, layers, groups]) runs on
\* mount and whenever one of the three is a new array, starting from the
\* cache of that render.  A run without a decode stores its cache at once,
\* another one when its decodes are done (LoadImagesDone).  The preview effect
\* runs on mount, with a new queue and whenever the cache is stored.
RenderStitchItems(items, queued, ls, gs, touched, tab) ==
  IF tab # "stitch"
  THEN /\ renderedImages' = <<>>
       /\ loadRuns' = {}
       /\ stitchedPreviewSrc' = None
       /\ previewRuns' = {}
  ELSE LET mounts == activeTab # "stitch"
           cache == IF mounts THEN <<>> ELSE renderedImages
           runs == IF mounts THEN {} ELSE loadRuns
           preview == IF mounts THEN None ELSE stitchedPreviewSrc
           previews == IF mounts THEN {} ELSE previewRuns
       IN IF ~(mounts \/ queued \/ touched \/ ls # layers \/ gs # groups)
          THEN UNCHANGED <<renderedImages, loadRuns, stitchedPreviewSrc, previewRuns>>
          ELSE IF Awaits(cache, items, ls, gs)
          THEN /\ renderedImages' = cache
               /\ loadRuns' = runs \cup {loadImages(cache, items, ls, gs)}
               /\ IF mounts \/ queued
                  THEN generatePreview(cache, items, preview, previews)
                  ELSE /\ stitchedPreviewSrc' = preview
                       /\ previewRuns' = previews
          ELSE /\ renderedImages' = loadImages(cache, items, ls, gs)
               /\ loadRuns' = runs
               /\ generatePreview(loadImages(cache, items, ls, gs), items, preview, previews)

RenderStitchView(ls, gs, touched, tab) ==
  RenderStitchItems(stitchItems, FALSE, ls, gs, touched, tab)

\* A render after App state became (ls, gs, a) on tab: mounts and unmounts,
\* and the GroupStitchView generation effect (deps [group.layerIds, allLayers];
\* touched = setLayers was called, so allLayers is a new array).
RenderTab(ls, gs, a, touched, tab) ==
  LET k0 == EditorKind(layers, groups, activeAssetId, activeTab)
      k1 == EditorKind(ls, gs, a, tab)
      fresh == k0 # "group"
      sd0 == IF fresh THEN None ELSE stitchedData
      gens0 == IF fresh THEN {} ELSE generations
      arr1 == IF fresh THEN FALSE ELSE isArrangeMode
  IN /\ layers' = ls
     /\ groups' = gs
     /\ activeAssetId' = a
     /\ activeTab' = tab
     /\ downloaded' = downloaded
     /\ RenderStitchView(ls, gs, touched, tab)
     /\ IF k1 # "group"
        THEN /\ stitchedData' = None
             /\ isArrangeMode' = FALSE
             /\ generations' = {}
        ELSE LET g1 == FindIn(gs, a)[1]
                 srcs == GroupSources(g1.layerIds, ls)
                 rerun == \/ fresh
                          \/ touched
                          \/ a # activeAssetId
                          \/ activeGroup[1].layerIds # g1.layerIds
             IN /\ isArrangeMode' = arr1
                /\ IF ~rerun
                   THEN /\ stitchedData' = sd0
                        /\ generations' = gens0
                   ELSE IF srcs = <<>>
                   THEN /\ stitchedData' = None
                        /\ generations' = gens0
                   ELSE /\ stitchedData' = sd0
                        /\ generations' = gens0 \cup {srcs}
                        /\ Cardinality(generations') <= MaxInflight
     /\ IF CropperKey(k1, stitchedData', isArrangeMode') = CurrentCropperKey
        THEN UNCHANGED cropperVars
        ELSE ResetCropper

Render(ls, gs, a, touched) == RenderTab(ls, gs, a, touched, activeTab)

\* ------------------------------------------------------------ App handlers
NewId(kind) == nextId[kind]
Bump(kind, n) == [nextId EXCEPT ![kind] = @ + n]

SetGroupId(ls, ids, gid) ==
  [i \in DOMAIN ls |-> IF ls[i].id \in ids THEN [ls[i] EXCEPT !.groupId = gid] ELSE ls[i]]

\* A file given to the import: whether its type starts with image/, and
\* whether the browser can decode it.
ImageFile == [image |-> TRUE, decodes |-> TRUE]
BrokenImageFile == [image |-> TRUE, decodes |-> FALSE]
OtherFile == [image |-> FALSE, decodes |-> FALSE]
ImportFiles == {ImageFile, BrokenImageFile, OtherFile}

\* processFile: a file that is not an image is dropped; otherwise the
\* FileReader starts, and the closure keeps draggedLibraryItemId
processFile(file) ==
  IF ~file.image
  THEN UNCHANGED vars
  ELSE /\ Len(pendingImports) < MaxPending
       /\ nextId.asset + Len(pendingImports) <= MaxAssets
       /\ pendingImports' = Append(pendingImports,
                                   [dragging |-> draggedLibraryItemId # 0,
                                    decodes |-> file.decodes])
       /\ UNCHANGED <<appVars, cropperVars, viewVars, pendingSelections, pendingReads,
                      gestures, raster, smartView, stitchVars>>

\* the import of an image file that decodes
ProcessFile == processFile(ImageFile)

\* a failed decode that deselects the active asset
ImportFailedDeselecting(i) ==
  /\ i \in DOMAIN pendingImports
  /\ ~pendingImports[i].decodes
  /\ pendingImports' = RemoveAt(pendingImports, i)
  /\ Render(layers, groups, 0, FALSE)
  /\ UNCHANGED <<stitchItems, selectedLibraryIds, isSelectionMode, draggedLibraryItemId,
                 nextId, pendingSelections, pendingReads, gestures, raster, smartView>>

\* processFile, the image does not decode: img has no onerror handler, and
\* nothing is stored
ImportFailed(i) ==
  /\ i \in DOMAIN pendingImports
  /\ ~pendingImports[i].decodes
  /\ pendingImports' = RemoveAt(pendingImports, i)
  /\ UNCHANGED <<appVars, cropperVars, viewVars, pendingSelections, pendingReads,
                 gestures, raster, smartView, stitchVars>>

\* processFile, img.onload: the new layer is appended and, unless a library
\* drag was in progress when the file was taken, activated
ImportLoaded(i) ==
  LET newLayer == [id |-> NewId("asset"), groupId |-> 0, crops |-> <<>>]
  IN /\ i \in DOMAIN pendingImports
     /\ pendingImports[i].decodes
     /\ pendingImports' = RemoveAt(pendingImports, i)
     /\ nextId' = Bump("asset", 1)
     /\ RenderTab(Append(layers, newLayer), groups,
                  IF pendingImports[i].dragging THEN activeAssetId ELSE newLayer.id, TRUE,
                  IF pendingImports[i].dragging THEN activeTab ELSE "editor")
     /\ UNCHANGED <<stitchItems, selectedLibraryIds, isSelectionMode,
                    draggedLibraryItemId, pendingSelections, pendingReads, gestures, raster, smartView>>

\* header buttons: enter selection mode / cancel it
EnterSelectionMode ==
  /\ ~isSelectionMode
  /\ isSelectionMode' = TRUE
  /\ UNCHANGED <<layers, groups, stitchItems, activeAssetId, selectedLibraryIds,
                 draggedLibraryItemId, nextId, asyncVars, cropperVars, viewVars, gestures, raster, smartView, stitchVars>>

CancelSelection ==
  /\ isSelectionMode
  /\ isSelectionMode' = FALSE
  /\ selectedLibraryIds' = {}
  /\ UNCHANGED <<layers, groups, stitchItems, activeAssetId,
                 draggedLibraryItemId, nextId, asyncVars, cropperVars, viewVars, gestures, raster, smartView, stitchVars>>

\* toggleSelection: a click on a library row in selection mode
ToggleSelection(id) ==
  /\ isSelectionMode
  /\ id \in VisibleLayerIds \cup VisibleGroupIds
  /\ selectedLibraryIds' = IF id \in selectedLibraryIds
                           THEN selectedLibraryIds \ {id}
                           ELSE selectedLibraryIds \cup {id}
  /\ UNCHANGED <<layers, groups, stitchItems, activeAssetId, isSelectionMode,
                 draggedLibraryItemId, nextId, asyncVars, cropperVars, viewVars, gestures, raster, smartView, stitchVars>>

\* a click on a layer row, or on a group's "View Composition" button
SetActiveAsset(id) ==
  /\ ~isSelectionMode
  /\ id \in VisibleLayerIds \cup VisibleGroupIds
  /\ id # activeAssetId
  /\ Render(layers, groups, id, FALSE)
  /\ UNCHANGED <<stitchItems, selectedLibraryIds, isSelectionMode,
                 draggedLibraryItemId, nextId, asyncVars, gestures, raster, smartView>>

\* createGroupFromLayers: the groups and layers after it
GroupsWithNew(gs, newGroupId, layerIds) ==
  Append(gs, [id |-> newGroupId, layerIds |-> layerIds, crops |-> <<>>, parentGroupId |-> 0])

createGroupFromLayers(ls, gs, layerIds) ==
  /\ nextId.asset <= MaxAssets
  /\ nextId' = Bump("asset", 1)
  /\ Render(SetGroupId(ls, Range(layerIds), NewId("asset")),
            GroupsWithNew(gs, NewId("asset"), layerIds), NewId("asset"), TRUE)

\* a selection filter that forgets the groupId test
RECURSIVE SelectedAny(_, _)
SelectedAny(ls, sel) ==
  IF ls = <<>> THEN <<>>
  ELSE (IF Head(ls).id \in sel THEN <<Head(ls).id>> ELSE <<>>) \o SelectedAny(Tail(ls), sel)

\* handleCreateGroup: the selected ungrouped layers, in library order
RECURSIVE SelectedUngrouped(_, _)
SelectedUngrouped(ls, sel) ==
  IF ls = <<>> THEN <<>>
  ELSE (IF Head(ls).id \in sel /\ Head(ls).groupId = 0 THEN <<Head(ls).id>> ELSE <<>>)
       \o SelectedUngrouped(Tail(ls), sel)

handleCreateGroup ==
  /\ isSelectionMode
  /\ Cardinality(selectedLibraryIds) >= 2
  /\ LET ids == SelectedUngrouped(layers, selectedLibraryIds)
     IN IF Len(ids) < 2
        THEN UNCHANGED vars
        ELSE /\ createGroupFromLayers(layers, groups, ids)
             /\ selectedLibraryIds' = {}
             /\ isSelectionMode' = FALSE
             /\ UNCHANGED <<stitchItems, draggedLibraryItemId, asyncVars, gestures, raster, smartView>>

\* handleUngroup: the layers and groups after it
UngroupLayers(ls, groupId) ==
  [i \in DOMAIN ls |-> IF ls[i].groupId = groupId THEN [ls[i] EXCEPT !.groupId = 0] ELSE ls[i]]

\* an ungroup that takes the child groups with it
UngroupGroupsCascade(gs, groupId) ==
  LET withoutGroup == FilterOutIds(gs, {groupId})
  IN SelectSeq(withoutGroup, LAMBDA g : g.parentGroupId # groupId)

UngroupGroups(gs, groupId) ==
  LET withoutGroup == FilterOutIds(gs, {groupId})
  IN [i \in DOMAIN withoutGroup |->
        IF withoutGroup[i].parentGroupId = groupId
        THEN [withoutGroup[i] EXCEPT !.parentGroupId = 0] ELSE withoutGroup[i]]

handleUngroup(groupId) ==
  /\ ~isSelectionMode
  /\ groupId \in VisibleGroupIds
  /\ Render(UngroupLayers(layers, groupId), UngroupGroups(groups, groupId),
            IF activeAssetId = groupId THEN 0 ELSE activeAssetId, TRUE)
  /\ UNCHANGED <<stitchItems, selectedLibraryIds, isSelectionMode,
                 draggedLibraryItemId, nextId, asyncVars, gestures, raster, smartView>>

\* handleDeleteItem, group branch: getSubGroups and the layers of those groups
RECURSIVE getSubGroups(_, _, _)
getSubGroups(gs, pId, fuel) ==
  IF fuel = 0 THEN {pId}
  ELSE {pId} \cup UNION {getSubGroups(gs, gs[i].id, fuel - 1) :
                           i \in {j \in DOMAIN gs : gs[j].parentGroupId = pId}}

LayerIdsOfGroups(gs, groupIds) ==
  UNION {Range(gs[i].layerIds) : i \in {j \in DOMAIN gs : gs[j].id \in groupIds}}

handleDeleteGroup(id) ==
  LET allGroupIds == getSubGroups(groups, id, Len(groups))
      allLayerIds == LayerIdsOfGroups(groups, allGroupIds)
  IN /\ ~isSelectionMode
     /\ id \in VisibleGroupIds
     /\ Render(FilterOutIds(layers, allLayerIds), FilterOutIds(groups, allGroupIds),
               IF activeAssetId # 0 /\ (activeAssetId \in allGroupIds \/ activeAssetId \in allLayerIds)
               THEN 0 ELSE activeAssetId, TRUE)
     /\ UNCHANGED <<stitchItems, selectedLibraryIds, isSelectionMode,
                    draggedLibraryItemId, nextId, asyncVars, gestures, raster, smartView>>

\* a layer deletion that also drops the groups it leaves with under two members
StripLayerAndPrune(gs, id) ==
  SelectSeq([i \in DOMAIN gs |-> [gs[i] EXCEPT !.layerIds = FilterSeq(@, Range(@) \ {id})]],
            LAMBDA g : Len(g.layerIds) >= 2)

\* handleDeleteItem, layer branch
StripLayer(gs, id) ==
  [i \in DOMAIN gs |-> [gs[i] EXCEPT !.layerIds = FilterSeq(@, Range(@) \ {id})]]

handleDeleteLayer(id) ==
  /\ id \in VisibleLayerIds
  /\ ~isSelectionMode \/ InVisibleGroup(id)
  /\ Render(FilterOutIds(layers, {id}), StripLayer(groups, id),
            IF activeAssetId = id THEN 0 ELSE activeAssetId, TRUE)
  /\ UNCHANGED <<stitchItems, selectedLibraryIds, isSelectionMode,
                 draggedLibraryItemId, nextId, asyncVars, gestures, raster, smartView>>

\* handleDeleteSelected
DeleteSelectedGroupIds == GroupIds \cap selectedLibraryIds
DeleteSelectedLayerIds ==
  (LayerIds \cap selectedLibraryIds) \cup LayerIdsOfGroups(groups, DeleteSelectedGroupIds)

handleDeleteSelected ==
  /\ isSelectionMode
  /\ selectedLibraryIds # {}
  /\ Render(FilterOutIds(layers, DeleteSelectedLayerIds),
            FilterOutIds(groups, DeleteSelectedGroupIds), 0, TRUE)
  /\ selectedLibraryIds' = {}
  /\ isSelectionMode' = FALSE
  /\ UNCHANGED <<stitchItems, draggedLibraryItemId, nextId, asyncVars, gestures, raster, smartView>>

\* handleLibraryDragStart: a layer row is draggable outside selection mode
handleLibraryDragStart(id) ==
  /\ ~isSelectionMode
  /\ id \in VisibleLayerIds
  /\ draggedLibraryItemId' = id
  /\ UNCHANGED <<layers, groups, stitchItems, activeAssetId, selectedLibraryIds,
                 isSelectionMode, nextId, asyncVars, cropperVars, viewVars, gestures, raster, smartView, stitchVars>>

\* removeLayerFromGroup
removeLayerFromGroup(gs, layerId, groupId) ==
  IF FindIn(gs, groupId) = None THEN gs
  ELSE [i \in DOMAIN gs |->
          IF gs[i].id = groupId
          THEN [gs[i] EXCEPT !.layerIds = FilterSeq(@, Range(@) \ {layerId})]
          ELSE gs[i]]

\* handleLibraryDropItem, branch 1: both layers in the same group
ReorderWithin(gs, groupId, sourceId, targetId) ==
  [i \in DOMAIN gs |->
     IF gs[i].id # groupId THEN gs[i]
     ELSE LET oldIndex == IndexOf(gs[i].layerIds, sourceId)
              newIndex == IndexOf(gs[i].layerIds, targetId)
          IN IF oldIndex # 0 /\ newIndex # 0
             THEN [gs[i] EXCEPT !.layerIds = InsertAt(RemoveAt(@, oldIndex), newIndex, sourceId)]
             ELSE gs[i]]

\* a member insertion at the front instead of the end
PrependMember(gs, groupId, layerId) ==
  [i \in DOMAIN gs |->
     IF gs[i].id = groupId THEN [gs[i] EXCEPT !.layerIds = <<layerId>> \o @] ELSE gs[i]]

AppendMember(gs, groupId, layerId) ==
  [i \in DOMAIN gs |->
     IF gs[i].id = groupId THEN [gs[i] EXCEPT !.layerIds = Append(@, layerId)] ELSE gs[i]]

\* the source's previous group lets it go first (when it has one)
Detached(gs, sourceLayer) ==
  IF sourceLayer.groupId # 0
  THEN removeLayerFromGroup(gs, sourceLayer.id, sourceLayer.groupId) ELSE gs

handleLibraryDropItem(targetId, isTargetGroup) ==
  LET sourceId == draggedLibraryItemId
      sourceLayer == FindIn(layers, sourceId)
      targetLayer == FindIn(layers, targetId)
      noGraphChange ==
        /\ UNCHANGED <<layers, groups, activeAssetId, nextId, cropperVars, viewVars, stitchVars>>
  IN /\ IF isTargetGroup THEN targetId \in VisibleGroupIds ELSE targetId \in VisibleLayerIds
     /\ draggedLibraryItemId' = 0
     /\ UNCHANGED <<stitchItems, selectedLibraryIds, isSelectionMode, asyncVars, gestures, raster, smartView>>
     /\ IF sourceId = 0 \/ sourceId = targetId \/ sourceLayer = None
        THEN noGraphChange
        ELSE IF /\ sourceLayer[1].groupId # 0
                /\ targetLayer # None
                /\ targetLayer[1].groupId = sourceLayer[1].groupId
        THEN \* 1. reordering inside the group
             /\ Render(layers,
                       ReorderWithin(groups, sourceLayer[1].groupId, sourceId, targetId),
                       activeAssetId, FALSE)
             /\ UNCHANGED nextId
        ELSE IF isTargetGroup
        THEN \* 2. drop on a group: add to it
             IF FindIn(groups, targetId) # None /\ sourceLayer[1].groupId # targetId
             THEN /\ Render(SetGroupId(layers, {sourceId}, targetId),
                            AppendMember(Detached(groups, sourceLayer[1]), targetId, sourceId),
                            activeAssetId, TRUE)
                  /\ UNCHANGED nextId
             ELSE noGraphChange
        ELSE IF targetLayer # None /\ targetLayer[1].groupId # 0
        THEN \* drop on a grouped layer: add to its group
             IF sourceLayer[1].groupId # targetLayer[1].groupId
             THEN /\ Render(SetGroupId(layers, {sourceId}, targetLayer[1].groupId),
                            AppendMember(Detached(groups, sourceLayer[1]),
                                         targetLayer[1].groupId, sourceId),
                            activeAssetId, TRUE)
                  /\ UNCHANGED nextId
             ELSE noGraphChange
        ELSE IF targetLayer # None
        THEN \* drop on a root layer: a new group of both
             createGroupFromLayers(layers, Detached(groups, sourceLayer[1]),
                                   <<targetId, sourceId>>)
        ELSE noGraphChange

\* an exchange of the two positions instead of a move
SwapMembers(layerIds, fromIndex, toIndex) ==
  [i \in DOMAIN layerIds |->
     IF i = fromIndex THEN layerIds[toIndex]
     ELSE IF i = toIndex THEN layerIds[fromIndex] ELSE layerIds[i]]

\* handleReorderGroup, reached from the arrange strip's handleDrop
MoveMember(layerIds, fromIndex, toIndex) ==
  InsertAt(RemoveAt(layerIds, fromIndex), toIndex, layerIds[fromIndex])

handleReorderGroup(groupId, fromIndex, toIndex) ==
  [i \in DOMAIN groups |->
     IF groups[i].id # groupId THEN groups[i]
     ELSE [groups[i] EXCEPT !.layerIds = MoveMember(@, fromIndex, toIndex)]]

ArrangeDrop(fromIndex, toIndex) ==
  /\ EditorKind(layers, groups, activeAssetId, activeTab) = "group"
  /\ isArrangeMode
  /\ fromIndex \in DOMAIN activeGroup[1].layerIds
  /\ toIndex \in DOMAIN activeGroup[1].layerIds
  /\ activeGroup[1].layerIds[fromIndex] \in LayerIds
  /\ activeGroup[1].layerIds[toIndex] \in LayerIds
  /\ fromIndex # toIndex
  /\ Render(layers, handleReorderGroup(activeAssetId, fromIndex, toIndex), activeAssetId, FALSE)
  /\ UNCHANGED <<stitchItems, selectedLibraryIds, isSelectionMode,
                 draggedLibraryItemId, nextId, asyncVars, gestures, raster, smartView>>

\* GroupStitchView toolbar: "View & Crop" / "Arrange"
SetArrangeMode(on) ==
  /\ EditorKind(layers, groups, activeAssetId, activeTab) = "group"
  /\ isArrangeMode # on
  /\ isArrangeMode' = on
  /\ IF CropperKey("group", stitchedData, on) = CurrentCropperKey
     THEN UNCHANGED cropperVars ELSE ResetCropper
  /\ UNCHANGED <<appVars, asyncVars, stitchedData, generations, gestures, raster, smartView, stitchVars>>

\* handleUpdateLayer / handleUpdateGroupCrops
handleUpdateLayer(ls, updatedLayer) ==
  [i \in DOMAIN ls |-> IF ls[i].id = updatedLayer.id THEN updatedLayer ELSE ls[i]]

\* an update that writes the new region list into every group
handleUpdateAllGroupCrops(gs, groupId, newCrops) ==
  [i \in DOMAIN gs |-> [gs[i] EXCEPT !.crops = newCrops]]

handleUpdateGroupCrops(gs, groupId, newCrops) ==
  [i \in DOMAIN gs |-> IF gs[i].id = groupId THEN [gs[i] EXCEPT !.crops = newCrops] ELSE gs[i]]

\* handleAddToStitch
MarkStitched(crops, cropId) ==
  [i \in DOMAIN crops |->
     IF crops[i].id = cropId THEN [crops[i] EXCEPT !.isStitched = TRUE] ELSE crops[i]]

handleAddToStitch(layerId, cropId) ==
  LET newItem == [id |-> NewId("item"), layerId |-> layerId, cropId |-> cropId]
  IN IF FindIn(layers, layerId) # None
     THEN /\ Render([i \in DOMAIN layers |->
                       IF layers[i].id # layerId THEN layers[i]
                       ELSE [layers[i] EXCEPT !.crops = MarkStitched(@, cropId)]],
                    groups, activeAssetId, TRUE)
          /\ stitchItems' = Append(stitchItems, newItem)
          /\ nextId' = Bump("item", 1)
     ELSE IF FindIn(groups, layerId) # None
     THEN /\ Render(layers,
                    [i \in DOMAIN groups |->
                       IF groups[i].id # layerId THEN groups[i]
                       ELSE [groups[i] EXCEPT !.crops = MarkStitched(@, cropId)]],
                    activeAssetId, FALSE)
          /\ stitchItems' = Append(stitchItems, newItem)
          /\ nextId' = Bump("item", 1)
     ELSE UNCHANGED <<layers, groups, activeAssetId, stitchItems, nextId, cropperVars, viewVars,
                      stitchVars>>

\* the onAddToStitch prop: the handler as a component may call it
onAddToStitch(layerId, cropId) ==
  /\ nextId.item <= MaxQueue
  /\ handleAddToStitch(layerId, cropId)
  /\ UNCHANGED <<selectedLibraryIds, isSelectionMode, draggedLibraryItemId,
                 asyncVars, gestures, raster, smartView>>

\* ------------------------------------------------------------ ImageCropper
\* Pointer positions after getClientPos, in percent of the image box; the
\* window listeners also see positions outside the box.
Points == {<<-10, 110>>, <<10, 10>>, <<11, 40>>, <<60, 60>>}
InsideBox(p) == p[1] >= 0 /\ p[1] <= 100 /\ p[2] >= 0 /\ p[2] <= 100
InsideCrop(p, c) ==
  p[1] >= c.x /\ p[1] <= c.x + c.width /\ p[2] >= c.y /\ p[2] <= c.y + c.height

Mounted == CurrentCropperKey # "off"

\* displayedCrops: the layer's crops with the optimistic one merged in by id
displayedCrops ==
  LET crops == CropperLayer.crops
  IN [i \in DOMAIN crops |->
        IF optimisticCrop # None /\ crops[i].id = optimisticCrop[1].id
        THEN optimisticCrop[1] ELSE crops[i]]

activeCrop == FindIn(displayedCrops, activeCropId)

\* onUpdateLayer as bound by the mounting parent: handleUpdateLayer for a layer,
\* handleProxyUpdate -> handleUpdateGroupCrops for a group's proxy layer
onUpdateLayer(key, updatedLayer) ==
  IF key = "layer"
  THEN /\ layers' = handleUpdateLayer(layers, updatedLayer)
       /\ groups' = groups
  ELSE /\ layers' = layers
       /\ groups' = handleUpdateGroupCrops(groups, updatedLayer.id, updatedLayer.crops)

\* the rectangle dragged out from the anchor (creation)
CreateRect(startX, startY, pos) ==
  [x |-> Min(startX, pos[1]), y |-> Min(startY, pos[2]),
   width |-> Abs(pos[1] - startX), height |-> Abs(pos[2] - startY)]

\* handleWindowMouseMove, move branch
\* a move that keeps the region right of and below the origin only
MoveCropNoFarEdge(init, dx, dy) ==
  [init EXCEPT !.x = Max(0, init.x + dx), !.y = Max(0, init.y + dy)]

MoveCrop(init, dx, dy) ==
  [init EXCEPT !.x = Min(Max(0, init.x + dx), 100 - init.width),
               !.y = Min(Max(0, init.y + dy), 100 - init.height)]

\* a resize that tracks the pointer on the dragged side but forgets to give the
\* clamped amount back to the size (the far edge drifts)
ResizeCropDrifting(mode, init, dx, dy) ==
  LET grownW == Max(1, Min(init.width + dx, 100 - init.x))
      grownH == Max(1, Min(init.height + dy, 100 - init.y))
      leftX == Max(0, Min(init.x + dx, init.x + init.width - 1))
      topY == Max(0, Min(init.y + dy, init.y + init.height - 1))
  IN CASE mode = "resize-se" -> [init EXCEPT !.width = grownW, !.height = grownH]
       [] mode = "resize-sw" -> [init EXCEPT !.x = leftX, !.width = Max(1, init.width - dx),
                                             !.height = grownH]
       [] mode = "resize-ne" -> [init EXCEPT !.y = topY, !.height = Max(1, init.height - dy),
                                             !.width = grownW]
       [] mode = "resize-nw" -> [init EXCEPT !.x = leftX, !.y = topY,
                                             !.width = Max(1, init.width - dx),
                                             !.height = Max(1, init.height - dy)]
       [] OTHER -> init

\* handleWindowMouseMove, resize branches
ResizeCrop(mode, init, dx, dy) ==
  LET grownW == Max(1, Min(init.width + dx, 100 - init.x))
      grownH == Max(1, Min(init.height + dy, 100 - init.y))
      leftX == Max(0, Min(init.x + dx, init.x + init.width - 1))
      topY == Max(0, Min(init.y + dy, init.y + init.height - 1))
  IN CASE mode = "resize-se" -> [init EXCEPT !.width = grownW, !.height = grownH]
       [] mode = "resize-sw" -> [init EXCEPT !.x = leftX,
                                             !.width = init.width + (init.x - leftX),
                                             !.height = grownH]
       [] mode = "resize-ne" -> [init EXCEPT !.y = topY,
                                             !.height = init.height + (init.y - topY),
                                             !.width = grownW]
       [] mode = "resize-nw" -> [init EXCEPT !.x = leftX, !.y = topY,
                                             !.width = init.width + (init.x - leftX),
                                             !.height = init.height + (init.y - topY)]
       [] OTHER -> init

\* handleMouseDown: pointer-down on the empty canvas
handleMouseDown(pos) ==
  /\ Mounted
  /\ interaction = None
  /\ InsideBox(pos)
  /\ \A i \in DOMAIN displayedCrops : ~InsideCrop(pos, displayedCrops[i])
  /\ gestures < MaxGestures
  /\ nextId.region <= MaxRegions
  /\ gestures' = gestures + 1
  /\ UNCHANGED <<raster, smartView, stitchVars>>
  /\ interaction' = Some([mode |-> "create", startX |-> pos[1], startY |-> pos[2],
                          initialCrop |-> None, activeId |-> 0])
  /\ tempSelection' = Some([x |-> pos[1], y |-> pos[2], width |-> 0, height |-> 0])
  /\ activeCropId' = 0
  /\ UNCHANGED <<appVars, asyncVars, viewVars, optimisticCrop>>

\* handleCropMouseDown: pointer-down on a region's body, grabbed at pos
\* a pointer-down on a region that shows the optimistic copy of a locked
\* region too
handleCropMouseDownShowingLocked(crop, pos) ==
  /\ Mounted
  /\ interaction = None
  /\ crop \in Range(displayedCrops)
  /\ InsideCrop(pos, crop)
  /\ gestures < MaxGestures
  /\ gestures' = gestures + 1
  /\ UNCHANGED <<raster, smartView, stitchVars>>
  /\ activeCropId' = crop.id
  /\ optimisticCrop' = Some(crop)
  /\ IF crop.isLocked
     THEN UNCHANGED interaction
     ELSE interaction' = Some([mode |-> "move", startX |-> pos[1], startY |-> pos[2],
                               initialCrop |-> Some(crop), activeId |-> crop.id])
  /\ UNCHANGED <<appVars, asyncVars, viewVars, tempSelection>>

handleCropMouseDown(crop, pos) ==
  /\ Mounted
  /\ interaction = None
  /\ crop \in Range(displayedCrops)
  /\ InsideCrop(pos, crop)
  /\ gestures < MaxGestures
  /\ gestures' = gestures + 1
  /\ UNCHANGED <<raster, smartView, stitchVars>>
  /\ activeCropId' = crop.id
  /\ IF crop.isLocked
     THEN UNCHANGED <<interaction, optimisticCrop>>
     ELSE /\ interaction' = Some([mode |-> "move", startX |-> pos[1], startY |-> pos[2],
                                  initialCrop |-> Some(crop), activeId |-> crop.id])
          /\ optimisticCrop' = Some(crop)
  /\ UNCHANGED <<appVars, asyncVars, viewVars, tempSelection>>

\* handleResizeMouseDown: the handles exist on the active, unlocked region only
HandlePos(crop, handle) ==
  CASE handle = "resize-nw" -> <<crop.x, crop.y>>
    [] handle = "resize-ne" -> <<crop.x + crop.width, crop.y>>
    [] handle = "resize-sw" -> <<crop.x, crop.y + crop.height>>
    [] handle = "resize-se" -> <<crop.x + crop.width, crop.y + crop.height>>

handleResizeMouseDown(crop, handle) ==
  /\ Mounted
  /\ interaction = None
  /\ crop \in Range(displayedCrops)
  /\ activeCropId = crop.id
  /\ ~crop.isLocked
  /\ gestures < MaxGestures
  /\ gestures' = gestures + 1
  /\ UNCHANGED <<raster, smartView, stitchVars>>
  /\ activeCropId' = crop.id
  /\ interaction' = Some([mode |-> handle, startX |-> HandlePos(crop, handle)[1],
                          startY |-> HandlePos(crop, handle)[2],
                          initialCrop |-> Some(crop), activeId |-> crop.id])
  /\ optimisticCrop' = Some(crop)
  /\ UNCHANGED <<appVars, asyncVars, viewVars, tempSelection>>

\* handleWindowMouseMove
NextOptimistic(cur, pos) ==
  LET dx == pos[1] - cur.startX
      dy == pos[2] - cur.startY
      init == cur.initialCrop[1]
  IN IF cur.mode = "move" THEN MoveCrop(init, dx, dy)
     ELSE ResizeCrop(cur.mode, init, dx, dy)

handleWindowMouseMove(pos) ==
  /\ Mounted
  /\ interaction # None
  /\ LET cur == interaction[1]
     IN IF cur.mode = "create"
        THEN /\ tempSelection' = Some(CreateRect(cur.startX, cur.startY, pos))
             /\ UNCHANGED optimisticCrop
        ELSE /\ optimisticCrop' = Some(NextOptimistic(cur, pos))
             /\ UNCHANGED tempSelection
  /\ UNCHANGED <<appVars, asyncVars, viewVars, activeCropId, interaction, gestures, raster, smartView, stitchVars>>

\* a commit that writes the dragged rectangle over every region of the list
CommitCropsOverAll(crops, activeId, finalCrop) ==
  [i \in DOMAIN crops |-> [finalCrop EXCEPT !.id = crops[i].id]]

\* handleWindowMouseUp
CommitCrops(crops, activeId, finalCrop) ==
  [i \in DOMAIN crops |-> IF crops[i].id = activeId THEN finalCrop ELSE crops[i]]

CreatedCrop(cur, pos) ==
  LET r == CreateRect(cur.startX, cur.startY, pos)
  IN [id |-> NewId("region"), x |-> r.x, y |-> r.y, width |-> r.width, height |-> r.height,
      isLocked |-> FALSE, replacementSrc |-> 0, isStitched |-> FALSE]

AcceptsCreatedFromOne(newCrop) == newCrop.width >= 1 /\ newCrop.height >= 1

AcceptsCreated(newCrop) == newCrop.width > 1 /\ newCrop.height > 1

handleWindowMouseUp(pos) ==
  /\ Mounted
  /\ interaction # None
  /\ LET cur == interaction[1]
         currentLayer == CropperLayer
     IN IF cur.mode = "create"
        THEN LET newCrop == CreatedCrop(cur, pos)
             IN IF AcceptsCreated(newCrop)
                THEN /\ onUpdateLayer(CurrentCropperKey,
                                      [currentLayer EXCEPT !.crops = Append(@, newCrop)])
                     /\ activeCropId' = newCrop.id
                     /\ nextId' = Bump("region", 1)
                ELSE UNCHANGED <<layers, groups, activeCropId, nextId>>
        ELSE /\ IF optimisticCrop # None /\ cur.activeId # 0
                THEN onUpdateLayer(CurrentCropperKey,
                                   [currentLayer EXCEPT
                                      !.crops = CommitCrops(@, cur.activeId, optimisticCrop[1])])
                ELSE UNCHANGED <<layers, groups>>
             /\ UNCHANGED <<activeCropId, nextId>>
  /\ interaction' = None
  /\ tempSelection' = None
  /\ optimisticCrop' = None
  /\ UNCHANGED <<stitchItems, activeAssetId, selectedLibraryIds, isSelectionMode,
                 draggedLibraryItemId, asyncVars, viewVars, gestures, raster, smartView, stitchVars>>

\* the trash button and the Delete key act on unlocked regions only
Deletable(crop) == ~crop.isLocked

\* toolbar: the X button
ClearActiveCrop ==
  /\ Mounted
  /\ interaction = None
  /\ activeCrop # None
  /\ activeCropId' = 0
  /\ UNCHANGED <<appVars, asyncVars, viewVars, optimisticCrop, interaction,
                 tempSelection, gestures, raster, smartView, stitchVars>>

\* handleLockToggle, from the toolbar's Lock/Unlock button
ToggleLock(crops, cropId) ==
  [i \in DOMAIN crops |->
     IF crops[i].id = cropId THEN [crops[i] EXCEPT !.isLocked = ~@] ELSE crops[i]]

handleLockToggle ==
  /\ Mounted
  /\ interaction = None
  /\ activeCrop # None
  /\ onUpdateLayer(CurrentCropperKey,
                   [CropperLayer EXCEPT !.crops = ToggleLock(@, activeCropId)])
  /\ UNCHANGED <<stitchItems, activeAssetId, selectedLibraryIds, isSelectionMode,
                 draggedLibraryItemId, nextId, asyncVars, cropperVars, viewVars, gestures, raster, smartView, stitchVars>>

\* handleDeleteCrop
handleDeleteCrop(cropId) ==
  /\ onUpdateLayer(CurrentCropperKey,
                   [CropperLayer EXCEPT !.crops = FilterOutIds(@, {cropId})])
  /\ activeCropId' = IF activeCropId = cropId THEN 0 ELSE activeCropId
  /\ UNCHANGED <<stitchItems, activeAssetId, selectedLibraryIds, isSelectionMode,
                 draggedLibraryItemId, nextId, asyncVars, viewVars,
                 optimisticCrop, interaction, tempSelection, gestures, raster, smartView, stitchVars>>

\* toolbar: the trash button, rendered for an unlocked active region
DeleteButton ==
  /\ Mounted
  /\ interaction = None
  /\ activeCrop # None
  /\ Deletable(activeCrop[1])
  /\ handleDeleteCrop(activeCropId)

\* handleKeyDown: Delete or Backspace, at any time the cropper is mounted
handleKeyDown ==
  /\ Mounted
  /\ activeCropId # 0
  /\ LET crop == FindIn(CropperLayer.crops, activeCropId)
     IN /\ crop # None
        /\ Deletable(crop[1])
        /\ handleDeleteCrop(activeCropId)

\* toolbar: the Stitch button of a locked region that is not yet queued
StitchButton ==
  /\ Mounted
  /\ interaction = None
  /\ activeCrop # None
  /\ activeCrop[1].isLocked
  /\ ~activeCrop[1].isStitched
  /\ nextId.item <= MaxQueue
  /\ handleAddToStitch(CropperLayer.id, activeCropId)
  /\ UNCHANGED <<selectedLibraryIds, isSelectionMode, draggedLibraryItemId,
                 asyncVars, gestures, raster, smartView>>

\* handleFileChange: the Replace button's file input; the reader's onload keeps
\* the layer, the active region id and onUpdateLayer of the render that made it
Files == {1}

handleFileChange(file) ==
  /\ Mounted
  /\ interaction = None
  /\ activeCrop # None
  /\ activeCrop[1].isLocked
  /\ Cardinality(pendingReads) < MaxPending
  /\ pendingReads' = pendingReads \cup
       {[key |-> CurrentCropperKey, layer |-> CropperLayer,
         cropId |-> activeCropId, file |-> file]}
  /\ UNCHANGED <<appVars, cropperVars, viewVars, pendingImports, pendingSelections, gestures, raster, smartView, stitchVars>>

\* handleFileChange, reader.onload
WithReplacement(crops, cropId, file) ==
  [i \in DOMAIN crops |->
     IF crops[i].id = cropId THEN [crops[i] EXCEPT !.replacementSrc = file] ELSE crops[i]]

ReplacementLoaded(r) ==
  LET updatedLayer == [r.layer EXCEPT !.crops = WithReplacement(@, r.cropId, r.file)]
  IN /\ r \in pendingReads
     /\ pendingReads' = pendingReads \ {r}
     /\ IF r.key = "layer"
        THEN Render(handleUpdateLayer(layers, updatedLayer), groups, activeAssetId, TRUE)
        ELSE Render(layers, handleUpdateGroupCrops(groups, updatedLayer.id, updatedLayer.crops),
                    activeAssetId, FALSE)
     /\ UNCHANGED <<stitchItems, selectedLibraryIds, isSelectionMode,
                    draggedLibraryItemId, nextId, pendingImports, pendingSelections, gestures, raster, smartView>>

\* handleDownloadCrop, from the toolbar's Download button of a locked region:
\* the link gets the replacement, or the region cut out of the layer's src
CropperSrc == IF CurrentCropperKey = "layer" THEN RawSrc(activeLayer[1]) ELSE stitchedData[1]

handleDownloadCrop ==
  /\ Mounted
  /\ interaction = None
  /\ activeCrop # None
  /\ activeCrop[1].isLocked
  /\ downloaded' = Some(IF activeCrop[1].replacementSrc # 0
                        THEN ReplacementImage(activeCrop[1].replacementSrc)
                        ELSE CroppedImage(CropperSrc, activeCrop[1]))
  /\ UNCHANGED <<appVars, asyncVars, cropperVars, viewVars, gestures, raster, smartView,
                 activeTab, renderedImages, loadRuns, stitchedPreviewSrc, previewRuns>>

\* ------------------------------------------------------- tabs and StitchView
\* the header's Editor / Stitch buttons
SetActiveTab(tab) ==
  /\ tab # activeTab
  /\ RenderTab(layers, groups, activeAssetId, FALSE, tab)
  /\ UNCHANGED <<stitchItems, selectedLibraryIds, isSelectionMode,
                 draggedLibraryItemId, nextId, asyncVars, gestures, raster, smartView>>

\* loadImages, after its last await: setRenderedImages(newCache)
LoadImagesDone(newCache) ==
  /\ newCache \in loadRuns
  /\ loadRuns' = loadRuns \ {newCache}
  /\ renderedImages' = newCache
  /\ generatePreview(newCache, stitchItems, stitchedPreviewSrc, previewRuns)
  /\ UNCHANGED <<appVars, asyncVars, cropperVars, viewVars, gestures, raster, smartView,
                 activeTab, downloaded>>

\* generatePreview, after its await: setStitchedPreviewSrc(url)
PreviewDone(url) ==
  /\ url \in previewRuns
  /\ previewRuns' = previewRuns \ {url}
  /\ stitchedPreviewSrc' = Some(url)
  /\ UNCHANGED <<appVars, asyncVars, cropperVars, viewVars, gestures, raster, smartView,
                 activeTab, downloaded, renderedImages, loadRuns>>

\* handleRemoveItem
\* a removal that always drops the first item
RemoveItemFirst(items, index) == Tail(items)

RemoveItem(items, index) == [i \in 1..(Len(items) - 1) |-> IF i < index THEN items[i] ELSE items[i + 1]]

\* handleMoveItem: direction -1 is 'left', 1 is 'right'
MoveItem(items, index, direction) ==
  IF index + direction < 1 \/ index + direction > Len(items) THEN items
  ELSE [i \in DOMAIN items |->
          IF i = index THEN items[index + direction]
          ELSE IF i = index + direction THEN items[index] ELSE items[i]]

\* handleReorder: splice out at from, splice in at to
ReorderItems(items, from, to) == InsertAt(RemoveAt(items, from), to, items[from])

\* a queue operation of the StitchView: setStitchItems and the render after it
SetStitchItems(items) ==
  /\ stitchItems' = items
  /\ RenderStitchItems(items, TRUE, layers, groups, FALSE, activeTab)
  /\ UNCHANGED <<layers, groups, activeAssetId, selectedLibraryIds, isSelectionMode,
                 draggedLibraryItemId, nextId, asyncVars, cropperVars, viewVars,
                 gestures, raster, smartView, activeTab, downloaded>>

handleRemoveItem(index) ==
  /\ activeTab = "stitch"
  /\ index \in DOMAIN stitchItems
  /\ SetStitchItems(RemoveItem(stitchItems, index))

\* the updater returns prev at either end: no new state, no render
handleMoveItem(index, direction) ==
  /\ activeTab = "stitch"
  /\ index \in DOMAIN stitchItems
  /\ IF index + direction < 1 \/ index + direction > Len(stitchItems)
     THEN UNCHANGED vars
     ELSE SetStitchItems(MoveItem(stitchItems, index, direction))

\* handleDrop -> handleReorder, on the arrange strip
handleReorder(from, to) ==
  /\ activeTab = "stitch"
  /\ from \in DOMAIN stitchItems
  /\ to \in DOMAIN stitchItems
  /\ from # to
  /\ SetStitchItems(ReorderItems(stitchItems, from, to))

\* ---------------------------------------------------------- GroupStitchView
\* the generation effect's generate(), img.onload: the stitched image is stored
GenerationLoaded(srcs) ==
  /\ srcs \in generations
  /\ generations' = generations \ {srcs}
  /\ stitchedData' = Some(generateStitchedCanvas(srcs))
  /\ IF CropperKey(EditorKind(layers, groups, activeAssetId, activeTab), stitchedData', isArrangeMode)
        = CurrentCropperKey
     THEN UNCHANGED cropperVars ELSE ResetCropper
  /\ UNCHANGED <<appVars, asyncVars, isArrangeMode, gestures, raster, smartView, stitchVars>>

\* a failed computation that also throws the stored image away
GenerationFailedClearing(srcs) ==
  /\ srcs \in generations
  /\ \E k \in DOMAIN srcs : srcs[k].overlays # <<>>
  /\ generations' = generations \ {srcs}
  /\ stitchedData' = None
  /\ UNCHANGED <<appVars, asyncVars, cropperVars, isArrangeMode, gestures, raster, smartView, stitchVars>>

\* GroupStitchView.generate, rejected: loadImage rejects on a source that does
\* not decode (a replacement file is stored without being decoded first), the
\* rejection leaves generate() before setStitchedData and nothing catches it
GenerationFailed(srcs) ==
  /\ srcs \in generations
  /\ \E k \in DOMAIN srcs : srcs[k].overlays # <<>>
  /\ generations' = generations \ {srcs}
  /\ UNCHANGED <<appVars, asyncVars, cropperVars, stitchedData, isArrangeMode, gestures, raster, smartView, stitchVars>>

\* handleStitchSelections: the "Stitch Selection" button; one cut per region of
\* the group, made asynchronously, then onCreateSubgroup of the render that
\* started it
handleStitchSelections ==
  /\ EditorKind(layers, groups, activeAssetId, activeTab) = "group"
  /\ ~isArrangeMode
  /\ stitchedData # None
  /\ activeGroup[1].crops # <<>>
  /\ Len(pendingSelections) < MaxPending
  /\ nextId.asset + Len(activeGroup[1].crops) <= MaxAssets
  /\ pendingSelections' = Append(pendingSelections,
                                 [parentGroupId |-> activeAssetId,
                                  cuts |-> Len(activeGroup[1].crops)])
  /\ UNCHANGED <<appVars, cropperVars, viewVars, pendingImports, pendingReads, gestures, raster, smartView, stitchVars>>

\* handleCreateSubgroup
handleCreateSubgroup(parentGroupId, cuts) ==
  LET newLayerIds == [k \in 1..cuts |-> NewId("asset") + k - 1]
      subId == NewId("asset") + cuts
      newLayers == [k \in 1..cuts |-> [id |-> newLayerIds[k], groupId |-> subId, crops |-> <<>>]]
      newSubGroup == [id |-> subId, layerIds |-> newLayerIds, crops |-> <<>>,
                      parentGroupId |-> parentGroupId]
  IN /\ nextId' = Bump("asset", cuts + 1)
     /\ Render(layers \o newLayers, Append(groups, newSubGroup), subId, TRUE)

SelectionsCut(i) ==
  /\ i \in DOMAIN pendingSelections
  /\ nextId.asset + pendingSelections[i].cuts <= MaxAssets
  /\ pendingSelections' = RemoveAt(pendingSelections, i)
  /\ handleCreateSubgroup(pendingSelections[i].parentGroupId, pendingSelections[i].cuts)
  /\ UNCHANGED <<stitchItems, selectedLibraryIds, isSelectionMode,
                 draggedLibraryItemId, pendingImports, pendingReads, gestures, raster, smartView>>

\* ------------------------------------------- JavaScript number arithmetic
\* A JavaScript number is an IEEE 754 binary64 value. A finite non-negative
\* one is kept as [m, e]: m its significand, a natural number of at most
\* Precision bits written in limbs of LimbBits bits, least significant first,
\* and e the exponent of its last bit; the value is m * 2^e. Every operation
\* computes the exact result and rounds it to nearest, ties to even, as the
\* language specifies. Operands are small enough for no exponent to overflow.
Precision == 53
LimbBits == 15
Base == 32768

Zero == [m |-> <<>>, e |-> 0]

RECURSIVE Pow2(_)
Pow2(n) == IF n = 0 THEN 1 ELSE 2 * Pow2(n - 1)

\* the number of bits of a natural below Base
RECURSIVE BitLen(_)
BitLen(n) == IF n = 0 THEN 0 ELSE 1 + BitLen(n \div 2)

\* without the leading zero limbs
RECURSIVE Trim(_)
Trim(m) == IF m # <<>> /\ m[Len(m)] = 0 THEN Trim(SubSeq(m, 1, Len(m) - 1)) ELSE m

BitLength(m) == IF m = <<>> THEN 0 ELSE (Len(m) - 1) * LimbBits + BitLen(m[Len(m)])

Limb(m, i) == IF i \in DOMAIN m THEN m[i] ELSE 0

\* bit k of m, bit 0 the least significant
BitAt(m, k) == (Limb(m, k \div LimbBits + 1) \div Pow2(k % LimbBits)) % 2

\* some bit of m below bit k is set
LowBitsSet(m, k) ==
  \/ \E i \in 1..(k \div LimbBits) : Limb(m, i) # 0
  \/ Limb(m, k \div LimbBits + 1) % Pow2(k % LimbBits) # 0

\* floor(m / 2^s)
ShiftRight(m, s) ==
  LET q == s \div LimbBits
      r == s % LimbBits
  IN Trim([i \in 1..Max(Len(m) - q, 0) |->
             Limb(m, i + q) \div Pow2(r)
             + (Limb(m, i + q + 1) % Pow2(r)) * Pow2(LimbBits - r)])

\* m * n + carry for a natural n below Base / 2
RECURSIVE MulSmall(_, _, _)
MulSmall(m, n, carry) ==
  IF m = <<>> THEN (IF carry = 0 THEN <<>> ELSE <<carry>>)
  ELSE LET t == Head(m) * n + carry
       IN <<t % Base>> \o MulSmall(Tail(m), n, t \div Base)

\* m * 2^s
ShiftLeft(m, s) == [i \in 1..(s \div LimbBits) |-> 0] \o MulSmall(m, Pow2(s % LimbBits), 0)

RECURSIVE AddLimbs(_, _, _)
AddLimbs(a, b, carry) ==
  IF a = <<>> /\ b = <<>> THEN (IF carry = 0 THEN <<>> ELSE <<carry>>)
  ELSE LET t == Limb(a, 1) + Limb(b, 1) + carry
       IN <<t % Base>> \o AddLimbs(IF a = <<>> THEN a ELSE Tail(a),
                                   IF b = <<>> THEN b ELSE Tail(b), t \div Base)

\* the value of a significand that fits an integer
ToNat(m) == Limb(m, 1) + Limb(m, 2) * Base

\* round-to-nearest, ties-to-even, of (m + f) * 2^e to Precision bits, where
\* 0 <= f < 1 and sticky tells whether f > 0
RoundToNearestEven(m, e, sticky) ==
  LET drop == BitLength(m) - Precision
  IN IF drop <= 0 THEN [m |-> m, e |-> e]
     ELSE LET keep == ShiftRight(m, drop)
              up == /\ BitAt(m, drop - 1) = 1
                    /\ sticky \/ LowBitsSet(m, drop - 1) \/ BitAt(keep, 0) = 1
              m1 == IF up THEN Trim(AddLimbs(keep, <<1>>, 0)) ELSE keep
          IN IF BitLength(m1) > Precision
             THEN [m |-> ShiftRight(m1, 1), e |-> e + drop + 1]
             ELSE [m |-> m1, e |-> e + drop]

\* the exponent k with 2^k <= a / b < 2^(k+1), for naturals a, b > 0
RECURSIVE Log2Floor(_, _)
Log2Floor(a, b) ==
  IF a >= 2 * b THEN Log2Floor(a, 2 * b) + 1
  ELSE IF a < b THEN Log2Floor(2 * a, b) - 1
  ELSE 0

\* a / b for naturals 0 < a, b < Base / 2: with n / d = a / b / 2^k in [1, 2),
\* the leading 1, four limbs of n / d - 1 by long division, and the remainder
\* as the sticky part
Divide(a, b) ==
  IF a = 0 THEN Zero ELSE
  LET k == Log2Floor(a, b)
      n == IF k < 0 THEN a * Pow2(-k) ELSE a
      d == IF k > 0 THEN b * Pow2(k) ELSE b
      r0 == n - d
      q1 == (r0 * Base) \div d
      r1 == (r0 * Base) % d
      q2 == (r1 * Base) \div d
      r2 == (r1 * Base) % d
      q3 == (r2 * Base) \div d
      r3 == (r2 * Base) % d
      q4 == (r3 * Base) \div d
      r4 == (r3 * Base) % d
  IN RoundToNearestEven(<<q4, q3, q2, q1, 1>>, k - 4 * LimbBits, r4 # 0)

\* x * n for a number x and an integer-valued number 0 < n < Base / 2
Multiply(x, n) == RoundToNearestEven(MulSmall(x.m, n, 0), x.e, FALSE)

Add(x, y) ==
  LET e == Min(x.e, y.e)
  IN IF x.m = <<>> THEN y
     ELSE IF y.m = <<>> THEN x
     ELSE RoundToNearestEven(AddLimbs(ShiftLeft(x.m, x.e - e), ShiftLeft(y.m, y.e - e), 0),
                             e, FALSE)

\* an integer as a number
FromInt(n) == [m |-> Trim(<<n % Base, n \div Base>>), e |-> 0]

\* -1, 0 or 1 as the natural a is below, equal to or above b (both trimmed)
CompareLimbs(a, b) ==
  IF Len(a) # Len(b) THEN (IF Len(a) < Len(b) THEN -1 ELSE 1)
  ELSE LET differ == {i \in DOMAIN a : a[i] # b[i]}
       IN IF differ = {} THEN 0
          ELSE LET top == CHOOSE i \in differ : \A j \in differ : j <= i
               IN IF a[top] < b[top] THEN -1 ELSE 1

\* a - b - borrow for naturals a >= b + borrow
RECURSIVE SubLimbs(_, _, _)
SubLimbs(a, b, borrow) ==
  IF a = <<>> THEN <<>>
  ELSE LET t == Head(a) - Limb(b, 1) - borrow
       IN <<(t + Base) % Base>>
            \o SubLimbs(Tail(a), IF b = <<>> THEN b ELSE Tail(b), IF t < 0 THEN 1 ELSE 0)

RECURSIVE MulLimbs(_, _)
MulLimbs(a, b) ==
  IF b = <<>> THEN <<>>
  ELSE AddLimbs(MulSmall(a, Head(b), 0), <<0>> \o MulLimbs(a, Tail(b)), 0)

\* -1, 0 or 1 as x < y, x = y or x > y
Compare(x, y) ==
  LET e == Min(x.e, y.e)
  IN CompareLimbs(Trim(ShiftLeft(x.m, x.e - e)), Trim(ShiftLeft(y.m, y.e - e)))

\* x * y
Times(x, y) ==
  IF x.m = <<>> \/ y.m = <<>> THEN Zero
  ELSE RoundToNearestEven(Trim(MulLimbs(x.m, y.m)), x.e + y.e, FALSE)

\* one digit of long division: for r < b, with b of four limbs and its top bit
\* set, the quotient and remainder of r * Base by b; the estimate from the
\* leading limbs is at most two too large
DivideStep(r, b) ==
  LET t == Trim(<<0>> \o r)
      estimate == Min((Limb(t, 5) * Base + Limb(t, 4)) \div b[4], Base - 1)
      fits(q) == CompareLimbs(Trim(MulSmall(b, q, 0)), t) <= 0
      q == IF fits(estimate) THEN estimate
           ELSE IF fits(estimate - 1) THEN estimate - 1 ELSE estimate - 2
  IN [q |-> q, r |-> Trim(SubLimbs(t, MulSmall(b, q, 0), 0))]

\* x / y for numbers x, y > 0: both significands widened to four full limbs,
\* the leading bit of the quotient, four more limbs of it by long division and
\* the remainder as the sticky part
Over(x, y) ==
  IF x.m = <<>> THEN Zero ELSE
  LET sx == 4 * LimbBits - BitLength(x.m)
      sy == 4 * LimbBits - BitLength(y.m)
      a == ShiftLeft(x.m, sx)
      b == ShiftLeft(y.m, sy)
      lead == IF CompareLimbs(a, b) >= 0 THEN 1 ELSE 0
      r0 == IF lead = 1 THEN Trim(SubLimbs(a, b, 0)) ELSE a
      d1 == DivideStep(r0, b)
      d2 == DivideStep(d1.r, b)
      d3 == DivideStep(d2.r, b)
      d4 == DivideStep(d3.r, b)
  IN RoundToNearestEven(Trim(<<d4.q, d3.q, d2.q, d1.q, lead>>),
                        (x.e - sx) - (y.e - sy) - 4 * LimbBits, d4.r # <<>>)

\* the integer part of a number that fits an integer (canvas.height = number)
Truncate(x) ==
  IF x.e >= 0 THEN ToNat(ShiftLeft(x.m, x.e)) ELSE ToNat(ShiftRight(x.m, -(x.e)))

\* Math.ceil, for a result that fits an integer
Ceil(x) ==
  IF x.e >= 0 THEN ToNat(ShiftLeft(x.m, x.e))
  ELSE ToNat(ShiftRight(x.m, -(x.e))) + (IF LowBitsSet(x.m, -(x.e)) THEN 1 ELSE 0)

\* ---------------------------------------------------- imageUtils, numbers
\* generateStitchedCanvas on the decoded images, each [width, height]
RECURSIVE MaxHeightOf(_)
MaxHeightOf(images) ==
  IF images = <<>> THEN 0 ELSE Max(Head(images).height, MaxHeightOf(Tail(images)))

\* step 2: newWidth = (img.width / img.height) * maxHeight
ScaledWidth(img, maxHeight) == Multiply(Divide(img.width, img.height), maxHeight)

\* totalWidth after the first n images, which is also currentX before image n + 1
RECURSIVE WidthUpTo(_, _)
WidthUpTo(images, n) ==
  IF n = 0 THEN Zero
  ELSE Add(WidthUpTo(images, n - 1), ScaledWidth(images[n], MaxHeightOf(images)))

StitchedCanvas(images) ==
  [width |-> Ceil(WidthUpTo(images, Len(images))),
   height |-> MaxHeightOf(images),
   draws |-> [i \in DOMAIN images |->
                [image |-> images[i],
                 x |-> WidthUpTo(images, i - 1),
                 width |-> ScaledWidth(images[i], MaxHeightOf(images)),
                 height |-> MaxHeightOf(images)]]]


\* Math.round of a number >= 0 that fits an integer: the nearest integer, a
\* tie going up
MathRound(x) ==
  IF x.e >= 0 THEN ToNat(ShiftLeft(x.m, x.e))
  ELSE ToNat(ShiftRight(x.m, -(x.e))) + BitAt(x.m, -(x.e) - 1)

\* cropImage: (percent / 100) * original, for a percentage >= 0
PixelsOf(percent, original) ==
  IF percent.m = <<>> THEN Zero ELSE Multiply(Over(percent, FromInt(100)), original)

\* a canvas side without the lower limit of one pixel
CanvasSideUnclamped(px) == MathRound(px)

\* cropImage: canvas.width = Math.max(1, Math.round(pxW)), and the height alike
CanvasSide(px) == Max(1, MathRound(px))

\* cropImage, what it draws: the source rectangle cut and the canvas drawn into
cropImage(crop, originalWidth, originalHeight) ==
  [sx |-> PixelsOf(crop.x, originalWidth), sy |-> PixelsOf(crop.y, originalHeight),
   sw |-> PixelsOf(crop.width, originalWidth), sh |-> PixelsOf(crop.height, originalHeight),
   width |-> CanvasSide(PixelsOf(crop.width, originalWidth)),
   height |-> CanvasSide(PixelsOf(crop.height, originalHeight))]

\* generateSmartStitch, the layout (everything before the canvas is drawn).
\* settings is [containerWidth, targetRowHeight, spacing], all integers.
RowEntry(img, settings) ==
  LET aspectRatio == Divide(img.width, img.height)
  IN [img |-> img, aspectRatio |-> aspectRatio,
      scaledWidth |-> Multiply(aspectRatio, settings.targetRowHeight)]

\* a closing test that needs the row to pass the container width
ClosesRowStrictly(currentWidth, count, settings) ==
  Compare(Add(currentWidth, FromInt((count - 1) * settings.spacing)),
          FromInt(settings.containerWidth)) > 0

\* the row is closed once it reaches the container width
ClosesRow(currentWidth, count, settings) ==
  Compare(Add(currentWidth, FromInt((count - 1) * settings.spacing)),
          FromInt(settings.containerWidth)) >= 0

\* the for loop over the images, and the push of the unfinished row after it
RECURSIVE PackRows(_, _, _, _)
PackRows(images, settings, currentRow, currentWidth) ==
  IF images = <<>>
  THEN (IF currentRow = <<>> THEN <<>> ELSE <<currentRow>>)
  ELSE LET entry == RowEntry(Head(images), settings)
           row == Append(currentRow, entry)
           width == Add(currentWidth, entry.scaledWidth)
       IN IF ClosesRow(width, Len(row), settings)
          THEN <<row>> \o PackRows(Tail(images), settings, <<>>, Zero)
          ELSE PackRows(Tail(images), settings, row, width)

\* row.reduce((sum, item) => sum + item.aspectRatio, 0) over the first n items
RECURSIVE AspectRatioSum(_, _)
AspectRatioSum(row, n) ==
  IF n = 0 THEN Zero ELSE Add(AspectRatioSum(row, n - 1), row[n].aspectRatio)

AvailableWidth(row, settings) ==
  settings.containerWidth - settings.spacing * 2 - (Len(row) - 1) * settings.spacing

\* the number literal 0.6
SixTenths == Divide(3, 5)

\* a layout that stretches every row
NeverKeepsTargetHeight(row, isLastRow, settings) == FALSE

KeepsTargetHeight(row, isLastRow, settings) ==
  /\ isLastRow
  /\ Len(row) > 0
  /\ Compare(AspectRatioSum(row, Len(row)),
             Times(Divide(AvailableWidth(row, settings), settings.targetRowHeight),
                   SixTenths)) < 0

\* a row height that forgets the margins left and right
RowHeightNoMargins(row, isLastRow, settings) ==
  IF KeepsTargetHeight(row, isLastRow, settings)
  THEN FromInt(settings.targetRowHeight)
  ELSE Over(FromInt(settings.containerWidth - (Len(row) - 1) * settings.spacing),
            AspectRatioSum(row, Len(row)))

RowHeight(row, isLastRow, settings) ==
  IF KeepsTargetHeight(row, isLastRow, settings)
  THEN FromInt(settings.targetRowHeight)
  ELSE Over(FromInt(AvailableWidth(row, settings)), AspectRatioSum(row, Len(row)))

\* x before item k of a row: let x = spacing; x += width + spacing
RECURSIVE XBefore(_, _, _, _)
XBefore(row, rowHeight, k, settings) ==
  IF k = 1 THEN FromInt(settings.spacing)
  ELSE Add(XBefore(row, rowHeight, k - 1, settings),
           Add(Times(rowHeight, row[k - 1].aspectRatio), FromInt(settings.spacing)))

\* y before row i: let y = spacing; y += rowHeight + spacing
RECURSIVE YBefore(_, _, _)
YBefore(rows, i, settings) ==
  IF i = 1 THEN FromInt(settings.spacing)
  ELSE Add(YBefore(rows, i - 1, settings),
           Add(RowHeight(rows[i - 1], i - 1 = Len(rows), settings),
               FromInt(settings.spacing)))

\* layout.push({ img, x, y, width, height: rowHeight })
LayoutItem(rows, i, k, settings) ==
  [img |-> rows[i][k].img,
   aspectRatio |-> rows[i][k].aspectRatio,
   scaledWidth |-> rows[i][k].scaledWidth,
   x |-> XBefore(rows[i], RowHeight(rows[i], i = Len(rows), settings), k, settings),
   y |-> YBefore(rows, i, settings),
   width |-> Times(RowHeight(rows[i], i = Len(rows), settings), rows[i][k].aspectRatio),
   height |-> RowHeight(rows[i], i = Len(rows), settings)]

LayoutRow(rows, i, settings) ==
  [height |-> RowHeight(rows[i], i = Len(rows), settings),
   exempt |-> KeepsTargetHeight(rows[i], i = Len(rows), settings),
   items |-> [k \in DOMAIN rows[i] |-> LayoutItem(rows, i, k, settings)]]

LayoutOf(rows, settings) ==
  [rows |-> [i \in DOMAIN rows |-> LayoutRow(rows, i, settings)],
   totalHeight |-> YBefore(rows, Len(rows) + 1, settings),
   canvas |-> [width |-> settings.containerWidth,
               height |-> Truncate(YBefore(rows, Len(rows) + 1, settings))]]

JustifiedLayout(images, settings) ==
  LayoutOf(PackRows(images, settings, <<>>, Zero), settings)

\* ------------------------------------------------------- SmartStitchView
Settings(containerWidth, targetRowHeight, spacing) ==
  [containerWidth |-> containerWidth, targetRowHeight |-> targetRowHeight,
   spacing |-> spacing]

\* useState of SmartStitchView after its first render and effect: runStitch()
\* found no images and set stitchedDataUrl to null. loads are the
\* Promise.all(files.map(loadImageFile)) of handleFileChange not yet settled,
\* runs the generateSmartStitch calls not yet resolved; picked and started
\* count them.
SmartStitchViewMounted ==
  [images |-> <<>>, settings |-> Settings(1200, 300, 12), stitchedDataUrl |-> None,
   isProcessing |-> FALSE, loads |-> {}, runs |-> {}, picked |-> 0, started |-> 0]

\* the data URL generateSmartStitch resolves with: the layout of these images
\* under these settings, drawn
SmartStitchUrl(images, settings) == [images |-> images, settings |-> settings]

\* runStitch, called by the effect whenever images or settings changed
runStitch(view) ==
  IF view.images = <<>>
  THEN [view EXCEPT !.stitchedDataUrl = None]
  ELSE [view EXCEPT !.isProcessing = TRUE,
                    !.started = @ + 1,
                    !.runs = @ \cup {[id |-> view.started + 1, images |-> view.images,
                                      settings |-> view.settings, stalled |-> FALSE]}]

\* runs that may still be started within MaxSmartRuns
RunsLeft ==
  MaxSmartRuns - smartView.started - Cardinality({l \in smartView.loads : l.ok})

appRest == <<appVars, asyncVars, cropperVars, viewVars, gestures, stitchVars, raster>>

\* handleFileChange of SmartStitchView up to its await; ok: the file decodes
SmartStitchFileChange(ok) ==
  /\ smartView.picked < MaxSmartFiles
  /\ ok => RunsLeft > 0
  /\ smartView' = [smartView EXCEPT !.isProcessing = TRUE,
                                    !.picked = @ + 1,
                                    !.loads = @ \cup {[id |-> smartView.picked + 1, ok |-> ok]}]
  /\ UNCHANGED appRest

\* handleFileChange after its await: setImages or catch, then finally; the
\* render that follows runs the effect
SmartStitchFilesLoaded(load) ==
  /\ load \in smartView.loads
  /\ smartView' =
       IF load.ok
       THEN runStitch([smartView EXCEPT !.images = Append(@, load.id),
                                        !.isProcessing = FALSE,
                                        !.loads = @ \ {load}])
       ELSE [smartView EXCEPT !.isProcessing = FALSE, !.loads = @ \ {load}]
  /\ UNCHANGED appRest

removeImage(id) ==
  /\ id \in Range(smartView.images)
  /\ Len(smartView.images) > 1 => RunsLeft > 0
  /\ smartView' = runStitch([smartView EXCEPT !.images = SelectSeq(@, LAMBDA img : img # id)])
  /\ UNCHANGED appRest

\* [...prev].sort(() => Math.random() - 0.5): some order of the same images
handleShuffle ==
  /\ smartView.images # <<>>
  /\ RunsLeft > 0
  /\ \E order \in [DOMAIN smartView.images -> Range(smartView.images)] :
       /\ Range(order) = Range(smartView.images)
       /\ smartView' = runStitch([smartView EXCEPT !.images = order])
  /\ UNCHANGED appRest

\* a slider of the settings panel moved
setSettings(settings) ==
  /\ settings # smartView.settings
  /\ smartView.images # <<>> => RunsLeft > 0
  /\ smartView' = runStitch([smartView EXCEPT !.settings = settings])
  /\ UNCHANGED appRest

\* runStitch after its await: every draw promise of generateSmartStitch resolved
RunStitchDone(run) ==
  /\ run \in smartView.runs
  /\ ~run.stalled
  /\ smartView' = [smartView EXCEPT
                     !.stitchedDataUrl = Some(SmartStitchUrl(run.images, run.settings)),
                     !.isProcessing = FALSE,
                     !.runs = @ \ {run}]
  /\ UNCHANGED appRest

\* an image of the run fails to decode while it is drawn: its promise has no
\* onerror, so Promise.all(drawPromises) stays pending
DrawFails(run) ==
  /\ run \in smartView.runs
  /\ ~run.stalled
  /\ smartView' = [smartView EXCEPT !.runs = (@ \ {run}) \cup {[run EXCEPT !.stalled = TRUE]}]
  /\ UNCHANGED appRest

\* ------------------------------------------------------------ specification
AppInit ==
  /\ layers = <<>>
  /\ groups = <<>>
  /\ stitchItems = <<>>
  /\ activeAssetId = 0
  /\ selectedLibraryIds = {}
  /\ isSelectionMode = FALSE
  /\ draggedLibraryItemId = 0
  /\ nextId = [asset |-> 1, region |-> 1, item |-> 1]
  /\ pendingImports = <<>>
  /\ pendingSelections = <<>>
  /\ activeCropId = 0
  /\ optimisticCrop = None
  /\ interaction = None
  /\ tempSelection = None
  /\ pendingReads = {}
  /\ stitchedData = None
  /\ isArrangeMode = FALSE
  /\ generations = {}
  /\ gestures = 0
  /\ activeTab = "editor"
  /\ renderedImages = <<>>
  /\ loadRuns = {}
  /\ downloaded = None
  /\ stitchedPreviewSrc = None
  /\ previewRuns = {}
  /\ smartView = SmartStitchViewMounted

\* no raster operation is observed on its own in the application model
NoRaster == [op |-> "none"]

Init == AppInit /\ raster = NoRaster

AssetIds == 1..(MaxAssets + 1)
Handles == {"resize-nw", "resize-ne", "resize-sw", "resize-se"}

Next ==
  \/ \E file \in ImportFiles : processFile(file)
  \/ \E i \in 1..MaxPending : ImportLoaded(i)
  \/ \E i \in 1..MaxPending : ImportFailed(i)
  \/ EnterSelectionMode
  \/ CancelSelection
  \/ \E id \in AssetIds : ToggleSelection(id)
  \/ \E id \in AssetIds : SetActiveAsset(id)
  \/ handleCreateGroup
  \/ \E id \in AssetIds : handleUngroup(id)
  \/ \E id \in AssetIds : handleDeleteGroup(id)
  \/ \E id \in AssetIds : handleDeleteLayer(id)
  \/ handleDeleteSelected
  \/ \E id \in AssetIds : handleLibraryDragStart(id)
  \/ \E id \in AssetIds, isGroup \in BOOLEAN : handleLibraryDropItem(id, isGroup)
  \/ \E from \in 1..MaxAssets, to \in 1..MaxAssets : ArrangeDrop(from, to)
  \/ \E on \in BOOLEAN : SetArrangeMode(on)
  \/ \E pos \in Points : handleMouseDown(pos)
  \/ \E pos \in Points : \E i \in DOMAIN displayedCrops : handleCropMouseDown(displayedCrops[i], pos)
  \/ \E h \in Handles : \E i \in DOMAIN displayedCrops : handleResizeMouseDown(displayedCrops[i], h)
  \/ \E pos \in Points : handleWindowMouseMove(pos)
  \/ \E pos \in Points : handleWindowMouseUp(pos)
  \/ ClearActiveCrop
  \/ handleLockToggle
  \/ DeleteButton
  \/ handleKeyDown
  \/ StitchButton
  \/ \E f \in Files : handleFileChange(f)
  \/ \E r \in pendingReads : ReplacementLoaded(r)
  \/ \E srcs \in generations : GenerationLoaded(srcs)
  \/ \E srcs \in generations : GenerationFailed(srcs)
  \/ handleStitchSelections
  \/ \E i \in 1..MaxPending : SelectionsCut(i)
  \/ handleDownloadCrop
  \/ \E tab \in {"editor", "stitch"} : SetActiveTab(tab)
  \/ \E newCache \in loadRuns : LoadImagesDone(newCache)
  \/ \E url \in previewRuns : PreviewDone(url)
  \/ \E index \in 1..MaxQueue : handleRemoveItem(index)
  \/ \E index \in 1..MaxQueue, direction \in {-1, 1} : handleMoveItem(index, direction)
  \/ \E from \in 1..MaxQueue, to \in 1..MaxQueue : handleReorder(from, to)

Spec == Init /\ [][Next]_vars

\* The region interaction state machine on imported layers: every ImageCropper
\* handler with pointer positions from Points, on at most GestureLayers layers.
NextGesture ==
  \/ /\ nextId.asset + Len(pendingImports) <= GestureLayers
     /\ ProcessFile
  \/ \E i \in 1..MaxPending : ImportLoaded(i)
  \/ \E pos \in Points : handleMouseDown(pos)
  \/ \E pos \in Points : \E i \in DOMAIN displayedCrops : handleCropMouseDown(displayedCrops[i], pos)
  \/ \E h \in Handles : \E i \in DOMAIN displayedCrops : handleResizeMouseDown(displayedCrops[i], h)
  \/ \E pos \in Points : handleWindowMouseMove(pos)
  \/ \E pos \in Points : handleWindowMouseUp(pos)
  \/ ClearActiveCrop
  \/ handleLockToggle
  \/ DeleteButton
  \/ handleKeyDown
  \/ \E f \in Files : handleFileChange(f)
  \/ \E r \in pendingReads : ReplacementLoaded(r)

SpecGesture == Init /\ [][NextGesture]_vars

\* The user acts one gesture at a time: a library event waits for the pointer
\* to be up, for a started drag to be dropped, and for imports, cuts and image
\* generations to finish.  A replacement file read may stay in flight across
\* any number of events.
Quiet ==
  /\ interaction = None
  /\ generations = {}
  /\ pendingImports = <<>>
  /\ pendingSelections = <<>>

Idle == Quiet /\ draggedLibraryItemId = 0

\* The asset graph: the library handlers, selection mode included, on at most
\* GraphLayers imported layers.
NextGraph ==
  \/ Idle /\ nextId.asset <= GraphLayers /\ ProcessFile
  \/ \E i \in 1..MaxPending : ImportLoaded(i)
  \/ Idle /\ EnterSelectionMode
  \/ Idle /\ CancelSelection
  \/ Idle /\ \E id \in AssetIds : ToggleSelection(id)
  \/ Idle /\ \E id \in AssetIds : SetActiveAsset(id)
  \/ Idle /\ handleCreateGroup
  \/ Idle /\ \E id \in AssetIds : handleUngroup(id)
  \/ Idle /\ \E id \in AssetIds : handleDeleteGroup(id)
  \/ Idle /\ \E id \in AssetIds : handleDeleteLayer(id)
  \/ Idle /\ handleDeleteSelected
  \/ Idle /\ \E id \in AssetIds : handleLibraryDragStart(id)
  \/ Quiet /\ \E id \in AssetIds, isGroup \in BOOLEAN : handleLibraryDropItem(id, isGroup)
  \/ Idle /\ \E from \in 1..MaxAssets, to \in 1..MaxAssets : ArrangeDrop(from, to)
  \/ Idle /\ \E on \in BOOLEAN : SetArrangeMode(on)
  \/ \E srcs \in generations : GenerationLoaded(srcs)

SpecGraph == Init /\ [][NextGraph]_vars

\* Membership under a late replacement read: layers are grouped and moved by
\* drag and drop, groups are dissolved and deleted, a region is drawn on a
\* layer by the gesture OwnerDown -> OwnerUp and locked, and one replacement
\* file is read for it.
OwnerDown == <<10, 10>>
OwnerUp == <<60, 60>>

NextMember ==
  \/ Idle /\ nextId.asset <= GraphLayers /\ ProcessFile
  \/ \E i \in 1..MaxPending : ImportLoaded(i)
  \/ Idle /\ \E id \in AssetIds : SetActiveAsset(id)
  \/ Idle /\ \E id \in AssetIds : handleUngroup(id)
  \/ Idle /\ \E id \in AssetIds : handleDeleteGroup(id)
  \/ Idle /\ \E id \in AssetIds : handleLibraryDragStart(id)
  \/ Quiet /\ \E id \in AssetIds, isGroup \in BOOLEAN : handleLibraryDropItem(id, isGroup)
  \/ Idle /\ nextId.region <= GraphRegions /\ CurrentCropperKey = "layer"
          /\ handleMouseDown(OwnerDown)
  \/ handleWindowMouseUp(OwnerUp)
  \/ Idle /\ CurrentCropperKey = "layer" /\ handleLockToggle
  \/ Idle /\ activeCrop # None /\ activeCrop[1].replacementSrc = 0
          /\ \E f \in Files : handleFileChange(f)
  \/ \E r \in pendingReads : ReplacementLoaded(r)
  \/ \E srcs \in generations : GenerationLoaded(srcs)

SpecMember == Init /\ [][NextMember]_vars

\* The group view with replacement files that may not decode: two layers, one
\* region each, replaced while the layer or its group is shown.
NextDecode ==
  \/ Idle /\ nextId.asset <= QueueLayers /\ ProcessFile
  \/ \E i \in 1..MaxPending : ImportLoaded(i)
  \/ Idle /\ \E id \in AssetIds : SetActiveAsset(id)
  \/ Idle /\ \E id \in AssetIds : handleLibraryDragStart(id)
  \/ Quiet /\ \E id \in AssetIds, isGroup \in BOOLEAN : handleLibraryDropItem(id, isGroup)
  \/ Idle /\ nextId.region <= GraphRegions /\ CurrentCropperKey = "layer"
          /\ handleMouseDown(OwnerDown)
  \/ handleWindowMouseUp(OwnerUp)
  \/ Idle /\ CurrentCropperKey = "layer" /\ handleLockToggle
  \/ Idle /\ activeCrop # None /\ activeCrop[1].replacementSrc = 0
          /\ \E f \in Files : handleFileChange(f)
  \/ \E r \in pendingReads : ReplacementLoaded(r)
  \/ \E srcs \in generations : GenerationLoaded(srcs)
  \/ \E srcs \in generations : GenerationFailed(srcs)

SpecDecode == Init /\ [][NextDecode]_vars

\* The stitch queue: regions are drawn on at most QueueLayers layers and on
\* their group, locked, queued and deleted; owners are deleted; a group's
\* regions are cut into a subgroup.
NextQueue ==
  \/ Idle /\ nextId.asset <= QueueLayers /\ ProcessFile
  \/ \E i \in 1..MaxPending : ImportLoaded(i)
  \/ Idle /\ \E id \in AssetIds : SetActiveAsset(id)
  \/ Idle /\ \E id \in AssetIds : handleUngroup(id)
  \/ Idle /\ \E id \in AssetIds : handleDeleteGroup(id)
  \/ Idle /\ \E id \in AssetIds : handleDeleteLayer(id)
  \/ Idle /\ \E id \in AssetIds : handleLibraryDragStart(id)
  \/ Quiet /\ \E id \in AssetIds, isGroup \in BOOLEAN : handleLibraryDropItem(id, isGroup)
  \/ Idle /\ nextId.region <= GraphRegions /\ handleMouseDown(OwnerDown)
  \/ handleWindowMouseUp(OwnerUp)
  \/ Idle /\ handleLockToggle
  \/ Idle /\ DeleteButton
  \/ Idle /\ StitchButton
  \/ Idle /\ handleStitchSelections
  \/ \E srcs \in generations : GenerationLoaded(srcs)
  \/ \E i \in 1..MaxPending : SelectionsCut(i)

SpecQueue == Init /\ [][NextQueue]_vars

\* The stitch handler called with any owner id and any region id, on layers
\* and a group that own at most GraphRegions regions.
RegionIds == 1..(MaxRegions + 1)

NextApi ==
  \/ Idle /\ nextId.asset <= QueueLayers /\ ProcessFile
  \/ \E i \in 1..MaxPending : ImportLoaded(i)
  \/ Idle /\ \E id \in AssetIds : SetActiveAsset(id)
  \/ Idle /\ \E id \in AssetIds : handleLibraryDragStart(id)
  \/ Quiet /\ \E id \in AssetIds, isGroup \in BOOLEAN : handleLibraryDropItem(id, isGroup)
  \/ Idle /\ nextId.region <= GraphRegions /\ handleMouseDown(OwnerDown)
  \/ handleWindowMouseUp(OwnerUp)
  \/ Idle /\ DeleteButton
  \/ Idle /\ \E layerId \in AssetIds, cropId \in RegionIds : onAddToStitch(layerId, cropId)
  \/ \E srcs \in generations : GenerationLoaded(srcs)

SpecApi == Init /\ [][NextApi]_vars

\* The group view's stitched image: a group of at most GraphLayers layers is
\* displayed and rearranged while its image generations are in flight; they
\* finish in any order.
Settled ==
  /\ interaction = None
  /\ pendingImports = <<>>
  /\ draggedLibraryItemId = 0

NextCache ==
  \/ Settled /\ nextId.asset <= GraphLayers /\ ProcessFile
  \/ \E i \in 1..MaxPending : ImportLoaded(i)
  \/ Settled /\ \E id \in AssetIds : SetActiveAsset(id)
  \/ Settled /\ \E id \in AssetIds : handleLibraryDragStart(id)
  \/ /\ interaction = None
     /\ pendingImports = <<>>
     /\ \E id \in AssetIds, isGroup \in BOOLEAN : handleLibraryDropItem(id, isGroup)
  \/ Settled /\ \E from \in 1..MaxAssets, to \in 1..MaxAssets : ArrangeDrop(from, to)
  \/ Settled /\ \E on \in BOOLEAN : SetArrangeMode(on)
  \/ \E srcs \in generations : GenerationLoaded(srcs)

SpecCache == Init /\ [][NextCache]_vars

\* Subgroups: a region is drawn on the virtual image of a group of QueueLayers
\* layers and cut into a subgroup; groups are selected, dissolved and deleted
\* one by one or in bulk.
NextForest ==
  \/ Idle /\ nextId.asset <= QueueLayers /\ ProcessFile
  \/ \E i \in 1..MaxPending : ImportLoaded(i)
  \/ Idle /\ \E id \in AssetIds : SetActiveAsset(id)
  \/ Idle /\ \E id \in AssetIds : handleUngroup(id)
  \/ Idle /\ \E id \in AssetIds : handleDeleteGroup(id)
  \/ Idle /\ \E id \in AssetIds : handleLibraryDragStart(id)
  \/ Quiet /\ \E id \in AssetIds, isGroup \in BOOLEAN : handleLibraryDropItem(id, isGroup)
  \/ Idle /\ nextId.region <= GraphRegions /\ CurrentCropperKey = "proxy"
          /\ handleMouseDown(OwnerDown)
  \/ handleWindowMouseUp(OwnerUp)
  \/ Idle /\ handleStitchSelections
  \/ \E srcs \in generations : GenerationLoaded(srcs)
  \/ \E i \in 1..MaxPending : SelectionsCut(i)
  \/ Idle /\ EnterSelectionMode
  \/ Idle /\ CancelSelection
  \/ Idle /\ \E id \in GroupIds : ToggleSelection(id)
  \/ Idle /\ handleDeleteSelected

SpecForest == Init /\ [][NextForest]_vars

\* Imports of files of every kind into a library of at most GraphLayers
\* layers that is grouped by drag and drop, with regions queued from the
\* first layers; a file may be taken while a library drag is in progress.
NextImport ==
  \/ /\ Quiet
     /\ Len(layers) < GraphLayers
     /\ \E file \in ImportFiles : processFile(file)
  \/ \E i \in 1..MaxPending : ImportLoaded(i)
  \/ \E i \in 1..MaxPending : ImportFailed(i)
  \/ Idle /\ \E id \in AssetIds : SetActiveAsset(id)
  \/ Idle /\ \E id \in AssetIds : handleLibraryDragStart(id)
  \/ Quiet /\ \E id \in AssetIds, isGroup \in BOOLEAN : handleLibraryDropItem(id, isGroup)
  \/ Idle /\ nextId.region <= GraphRegions /\ handleMouseDown(OwnerDown)
  \/ handleWindowMouseUp(OwnerUp)
  \/ Idle /\ handleLockToggle
  \/ Idle /\ StitchButton
  \/ \E srcs \in generations : GenerationLoaded(srcs)

SpecImport == Init /\ [][NextImport]_vars

\* The stitch tab: regions are drawn on at most GestureLayers layers, locked,
\* replaced, queued and downloaded on the editor tab, and the StitchView
\* renders the queue while replacement reads and its own image loads are in
\* flight.  The library is used on the editor tab.
OnEditor == Idle /\ activeTab = "editor"

NextView ==
  \/ OnEditor /\ nextId.asset <= GestureLayers /\ ProcessFile
  \/ \E i \in 1..MaxPending : ImportLoaded(i)
  \/ Idle /\ nextId.region <= MaxRegions /\ handleMouseDown(OwnerDown)
  \/ handleWindowMouseUp(OwnerUp)
  \/ Idle /\ ClearActiveCrop
  \/ Idle /\ handleLockToggle
  \/ Idle /\ StitchButton
  \/ Idle /\ handleDownloadCrop
  \/ Idle /\ \E f \in Files : handleFileChange(f)
  \/ \E r \in pendingReads : ReplacementLoaded(r)
  \/ Idle /\ \E tab \in {"editor", "stitch"} : SetActiveTab(tab)
  \/ \E newCache \in loadRuns : LoadImagesDone(newCache)

SpecView == Init /\ [][NextView]_vars

\* The stitch tab with a group: QueueLayers layers are imported and grouped by
\* drag and drop; one region is drawn on a layer, locked and replaced, and
\* further ones on the group's virtual image, locked and queued, all on the
\* editor tab; the StitchView renders the queue.
NextGroupView ==
  \/ OnEditor /\ nextId.asset <= QueueLayers /\ ProcessFile
  \/ \E i \in 1..MaxPending : ImportLoaded(i)
  \/ OnEditor /\ \E id \in AssetIds : SetActiveAsset(id)
  \/ OnEditor /\ \E id \in AssetIds : handleLibraryDragStart(id)
  \/ Quiet /\ activeTab = "editor"
           /\ \E id \in AssetIds, isGroup \in BOOLEAN : handleLibraryDropItem(id, isGroup)
  \/ Idle /\ nextId.region <= GraphRegions /\ CurrentCropperKey = "layer"
          /\ handleMouseDown(OwnerDown)
  \/ Idle /\ nextId.region <= MaxRegions /\ CurrentCropperKey = "proxy"
          /\ handleMouseDown(OwnerDown)
  \/ handleWindowMouseUp(OwnerUp)
  \/ Idle /\ handleLockToggle
  \/ Idle /\ CurrentCropperKey = "proxy" /\ StitchButton
  \/ Idle /\ CurrentCropperKey = "layer" /\ pendingReads = {}
          /\ \E f \in Files : handleFileChange(f)
  \/ \E r \in pendingReads : ReplacementLoaded(r)
  \/ \E srcs \in generations : GenerationLoaded(srcs)
  \/ Idle /\ pendingReads = {} /\ \E tab \in {"editor", "stitch"} : SetActiveTab(tab)
  \/ \E newCache \in loadRuns : LoadImagesDone(newCache)

SpecGroupView == Init /\ [][NextGroupView]_vars

\* Regions of a group: QueueLayers layers are grouped by drag and drop, and
\* regions are created, moved, resized, locked, deleted and replaced on the
\* virtual image of the group, and cut once into a subgroup whose virtual
\* image is edited in the same way.
OnProxy == CurrentCropperKey = "proxy"

NextProxy ==
  \/ Idle /\ nextId.asset <= QueueLayers /\ ProcessFile
  \/ \E i \in 1..MaxPending : ImportLoaded(i)
  \/ Idle /\ \E id \in GroupIds : SetActiveAsset(id)
  \/ Idle /\ groups = <<>> /\ \E id \in AssetIds : handleLibraryDragStart(id)
  \/ Quiet /\ groups = <<>>
           /\ \E id \in AssetIds, isGroup \in BOOLEAN : handleLibraryDropItem(id, isGroup)
  \/ \E srcs \in generations : GenerationLoaded(srcs)
  \/ Idle /\ OnProxy /\ handleMouseDown(OwnerDown)
  \/ Idle /\ OnProxy /\ \E i \in DOMAIN displayedCrops :
                          handleCropMouseDown(displayedCrops[i], OwnerUp)
  \/ Idle /\ OnProxy /\ \E h \in Handles : \E i \in DOMAIN displayedCrops :
                          handleResizeMouseDown(displayedCrops[i], h)
  \/ OnProxy /\ handleWindowMouseMove(<<-10, 110>>)
  \/ OnProxy /\ \E pos \in {OwnerUp, <<11, 40>>} : handleWindowMouseUp(pos)
  \/ Idle /\ OnProxy /\ handleLockToggle
  \/ Idle /\ OnProxy /\ DeleteButton
  \/ OnProxy /\ handleKeyDown
  \/ Idle /\ OnProxy /\ \E f \in Files : handleFileChange(f)
  \/ \E r \in pendingReads : ReplacementLoaded(r)
  \/ Idle /\ Len(groups) = 1 /\ handleStitchSelections
  \/ \E i \in 1..MaxPending : SelectionsCut(i)

SpecProxy == Init /\ [][NextProxy]_vars

\* The group view across a switch of the active group: two layers are grouped,
\* a region of the group is cut into a subgroup, and the user switches between
\* the two groups and draws regions while generate() runs are still in flight.
Unheld == interaction = None /\ draggedLibraryItemId = 0 /\ pendingImports = <<>>

NextSwitch ==
  \/ Idle /\ nextId.asset <= QueueLayers /\ ProcessFile
  \/ \E i \in 1..MaxPending : ImportLoaded(i)
  \/ Idle /\ groups = <<>> /\ \E id \in AssetIds : handleLibraryDragStart(id)
  \/ Quiet /\ groups = <<>>
           /\ \E id \in AssetIds, isGroup \in BOOLEAN : handleLibraryDropItem(id, isGroup)
  \/ Unheld /\ pendingSelections = <<>> /\ \E id \in GroupIds : SetActiveAsset(id)
  \/ \E srcs \in generations : GenerationLoaded(srcs)
  \/ Unheld /\ OnProxy /\ Len(displayedCrops) < MaxRegions /\ handleMouseDown(OwnerDown)
  \/ OnProxy /\ \E pos \in {OwnerUp, <<11, 40>>} : handleWindowMouseUp(pos)
  \/ Unheld /\ OnProxy /\ handleLockToggle
  \/ Idle /\ Len(groups) = 1 /\ handleStitchSelections
  \/ \E i \in 1..MaxPending : SelectionsCut(i)

SpecSwitch == Init /\ [][NextSwitch]_vars

\* handleUngroup and handleReorderGroup called with any group id, as a caller
\* holding an id from an earlier render does
CallUngroup(groupId) ==
  /\ Render(UngroupLayers(layers, groupId), UngroupGroups(groups, groupId),
            IF activeAssetId = groupId THEN 0 ELSE activeAssetId, TRUE)
  /\ UNCHANGED <<stitchItems, selectedLibraryIds, isSelectionMode,
                 draggedLibraryItemId, nextId, asyncVars, gestures, raster, smartView>>

CallReorderGroup(groupId, fromIndex, toIndex) ==
  /\ Render(layers, handleReorderGroup(groupId, fromIndex, toIndex), activeAssetId, FALSE)
  /\ UNCHANGED <<stitchItems, selectedLibraryIds, isSelectionMode,
                 draggedLibraryItemId, nextId, asyncVars, gestures, raster, smartView>>

\* an id that was given out and names no layer and no group now
StaleIds == {id \in AssetIds : id < nextId.asset /\ id \notin LayerIds \cup GroupIds}

\* Stale ids: layers are grouped, a region of the group is drawn, locked,
\* replaced, moved and deleted by key during the move, a region is cut into a
\* subgroup, layers and groups are deleted one by one and in bulk, and the
\* ungroup and reorder handlers are called with ids of deleted assets.
NextStale ==
  \/ Idle /\ nextId.asset <= QueueLayers /\ ProcessFile
  \/ \E i \in 1..MaxPending : ImportLoaded(i)
  \/ Idle /\ \E id \in AssetIds : SetActiveAsset(id)
  \/ Idle /\ \E id \in AssetIds : handleDeleteGroup(id)
  \/ Idle /\ \E id \in AssetIds : handleDeleteLayer(id)
  \/ Idle /\ groups = <<>> /\ \E id \in AssetIds : handleLibraryDragStart(id)
  \/ Quiet /\ groups = <<>>
           /\ \E id \in AssetIds, isGroup \in BOOLEAN : handleLibraryDropItem(id, isGroup)
  \/ Idle /\ nextId.region <= GraphRegions /\ handleMouseDown(OwnerDown)
  \/ Idle /\ \E i \in DOMAIN displayedCrops : handleCropMouseDown(displayedCrops[i], OwnerUp)
  \/ handleWindowMouseMove(<<11, 40>>)
  \/ handleWindowMouseUp(OwnerUp)
  \/ handleKeyDown
  \/ Idle /\ handleLockToggle
  \/ Idle /\ \E f \in Files : handleFileChange(f)
  \/ \E r \in pendingReads : ReplacementLoaded(r)
  \/ Idle /\ handleStitchSelections
  \/ \E srcs \in generations : GenerationLoaded(srcs)
  \/ \E i \in 1..MaxPending : SelectionsCut(i)
  \/ Idle /\ EnterSelectionMode
  \/ Idle /\ CancelSelection
  \/ Idle /\ \E id \in GroupIds : ToggleSelection(id)
  \/ Idle /\ handleDeleteSelected
  \/ Idle /\ \E id \in StaleIds : CallUngroup(id)
  \/ Idle /\ \E id \in StaleIds : CallReorderGroup(id, 1, 2)

SpecStale == Init /\ [][NextStale]_vars

\* The stitch tab's preview: up to MaxRegions regions of one layer are drawn,
\* locked and queued on the editor tab; on the stitch tab the queue is
\* reordered and shortened while loadImages and generatePreview runs are in
\* flight and finish in any order.
NextPreview ==
  \/ OnEditor /\ nextId.asset <= GestureLayers /\ ProcessFile
  \/ \E i \in 1..MaxPending : ImportLoaded(i)
  \/ Idle /\ nextId.region <= MaxRegions /\ \E pos \in {OwnerDown, <<70, 70>>} : handleMouseDown(pos)
  \/ \E pos \in {OwnerUp, <<90, 90>>} : handleWindowMouseUp(pos)
  \/ Idle /\ activeCrop # None /\ ~activeCrop[1].isLocked /\ handleLockToggle
  \/ Idle /\ StitchButton
  \/ Idle /\ \E tab \in {"editor", "stitch"} : SetActiveTab(tab)
  \/ \E newCache \in loadRuns : LoadImagesDone(newCache)
  \/ \E url \in previewRuns : PreviewDone(url)
  \/ \E index \in 1..MaxQueue : handleRemoveItem(index)
  \/ \E index \in 1..MaxQueue, direction \in {-1, 1} : handleMoveItem(index, direction)
  \/ \E from \in 1..MaxQueue, to \in 1..MaxQueue : handleReorder(from, to)

SpecPreview == Init /\ [][NextPreview]_vars

\* The raster operations of imageUtils on their own. A source is the image a
\* data URL holds: its size, and whether the browser can decode it (loadImage
\* resolves on onload and rejects on onerror). raster is the operation applied:
\* its sources, the sources drawn on its canvas so far, and how it ended.
Source(w, h, ok) == [width |-> w, height |-> h, decodes |-> ok]
Sizes(n) == {Source(w, h, TRUE) : w, h \in 1..n}
ExampleSizes == {Source(800, 600, TRUE), Source(400, 600, TRUE)}
StitchInputs ==
  {<<a>> : a \in Sizes(MaxSide)}
    \cup {<<a, b>> : a, b \in Sizes(MaxPairSide) \cup ExampleSizes}

appAll == <<appVars, asyncVars, cropperVars, viewVars, gestures, stitchVars, smartView>>

Apply(op, sources) ==
  [op |-> op, input |-> sources, drawn |-> {}, outcome |-> "pending", output |-> <<>>]

AllDecode(sources) == \A i \in DOMAIN sources : sources[i].decodes

\* an operation over awaited loadImage calls: the first rejection leaves the
\* async function, which returns nothing; otherwise every source is drawn
Awaited(op, output) ==
  /\ raster.op = op
  /\ raster.outcome = "pending"
  /\ raster' = IF AllDecode(raster.input)
               THEN [raster EXCEPT !.outcome = "resolved", !.drawn = DOMAIN raster.input,
                                   !.output = output]
               ELSE [raster EXCEPT !.outcome = "rejected"]
  /\ UNCHANGED appAll

\* cropImage: the one source, cut
CropImage == Len(raster.input) = 1 /\ Awaited("cropImage", <<"crop">>)

\* generateCompositeImage: the layer's src, then its replacements in order
GenerateCompositeImage == Awaited("generateCompositeImage", <<"composite">>)

\* generateStitchedCanvas
GenerateStitchedCanvas ==
  Awaited("generateStitchedCanvas", StitchedCanvas(raster.input))

\* generateSmartStitch: the layout is drawn by one promise per image, resolved
\* by the image's onload; there is no onerror
SmartStitchDraw(i) ==
  /\ raster.op = "generateSmartStitch"
  /\ raster.outcome = "pending"
  /\ i \in DOMAIN raster.input
  /\ i \notin raster.drawn
  /\ raster.input[i].decodes
  /\ raster' = [raster EXCEPT !.drawn = @ \cup {i}]
  /\ UNCHANGED appAll

\* generateSmartStitch, after Promise.all(drawPromises)
SmartStitchDone ==
  /\ raster.op = "generateSmartStitch"
  /\ raster.outcome = "pending"
  /\ raster.drawn = DOMAIN raster.input
  /\ raster' = [raster EXCEPT !.outcome = "resolved", !.output = <<"layout">>]
  /\ UNCHANGED appAll

\* Horizontal stitching of decodable sources of every size up to the bounds.
InitStitch ==
  /\ AppInit
  /\ \E images \in StitchInputs : raster = Apply("generateStitchedCanvas", images)

NextStitch == GenerateStitchedCanvas

SpecStitch == InitStitch /\ [][NextStitch]_vars

\* cropImage on its own: regions whose sides are the percentages num / den of
\* Percentages, stored as numbers, cut twice out of a source of every size up
\* to MaxDim and of the sizes of LargeSides; the source may not decode.
Percentages == {<<0, 1>>, <<1, 3>>, <<1, 2>>, <<1, 1>>, <<50, 1>>, <<100, 3>>, <<100, 1>>}
LargeSides == {5, 250, 1080}
Percent(p) == IF p[1] = 0 THEN Zero ELSE Divide(p[1], p[2])

InitCrop ==
  /\ AppInit
  /\ \E w \in Percentages, h \in {<<1, 3>>, <<50, 1>>, <<100, 1>>},
        srcW \in 1..MaxDim \cup LargeSides, srcH \in 1..MaxDim, ok \in BOOLEAN :
       raster = [op |-> "cropImage",
                 input |-> [source |-> Source(srcW, srcH, ok),
                            crop |-> [x |-> Zero, y |-> Zero,
                                      width |-> Percent(w), height |-> Percent(h)],
                            asked |-> <<w, h>>],
                 outcome |-> "pending", output |-> <<>>]

\* one call of cropImage on the input; the loadImage it awaits may reject
CropToRaster ==
  /\ raster.op = "cropImage"
  /\ raster.outcome # "rejected"
  /\ Len(raster.output) < 2
  /\ raster' = IF raster.input.source.decodes
               THEN [raster EXCEPT
                       !.outcome = "resolved",
                       !.output = Append(@, cropImage(raster.input.crop,
                                                      raster.input.source.width,
                                                      raster.input.source.height))]
               ELSE [raster EXCEPT !.outcome = "rejected"]
  /\ UNCHANGED appAll

NextCrop == CropToRaster

SpecCrop == InitCrop /\ [][NextCrop]_vars

\* The justified layout on its own: up to MaxImages images of sides up to
\* MaxDim under settings the sliders of SmartStitchView can produce.
RECURSIVE ImageLists(_)
ImageLists(n) ==
  IF n = 0 THEN {<<>>}
  ELSE ImageLists(n - 1)
         \cup {Append(l, img) : l \in {k \in ImageLists(n - 1) : Len(k) = n - 1},
                                img \in Sizes(MaxDim)}

LayoutSettings == {Settings(1200, 300, 12), Settings(800, 800, 0), Settings(800, 100, 100)}

InitLayout ==
  /\ AppInit
  /\ \E images \in ImageLists(MaxImages) \ {<<>>}, settings \in LayoutSettings :
       raster = Apply("generateSmartStitch", [images |-> images, settings |-> settings])

SmartStitchLayout ==
  /\ raster.op = "generateSmartStitch"
  /\ raster.output = <<>>
  /\ raster' = [raster EXCEPT
                  !.output = JustifiedLayout(raster.input.images, raster.input.settings)]
  /\ UNCHANGED appAll

NextLayout == SmartStitchLayout

SpecLayout == InitLayout /\ [][NextLayout]_vars

\* The smart stitch view on its own: files are picked, images removed and
\* shuffled, the sliders moved, while loads and runs finish in any order. A
\* load or a run that can finish does finish.
SmartSettings == {Settings(1200, 300, 12), Settings(800, 100, 100)}

NextSmart ==
  \/ \E ok \in BOOLEAN : SmartStitchFileChange(ok)
  \/ \E load \in smartView.loads : SmartStitchFilesLoaded(load)
  \/ \E id \in 1..MaxSmartFiles : removeImage(id)
  \/ handleShuffle
  \/ \E settings \in SmartSettings : setSettings(settings)
  \/ \E run \in smartView.runs : RunStitchDone(run)
  \/ \E run \in smartView.runs : DrawFails(run)

SpecSmart ==
  /\ Init
  /\ [][NextSmart]_vars
  /\ WF_vars(\E run \in smartView.runs : RunStitchDone(run))
  /\ WF_vars(\E load \in smartView.loads : SmartStitchFilesLoaded(load))

\* The justified layout of up to MaxRowImages narrow and wide images at the
\* widest spacing and the smallest width and row height of the sliders, and
\* without spacing.
NarrowSizes == {Source(1, 3, TRUE), Source(3, 1, TRUE)}

NarrowSettings == {Settings(800, 100, 100), Settings(800, 800, 0)}

InitNarrow ==
  /\ AppInit
  /\ \E n \in 1..MaxRowImages : \E images \in [1..n -> NarrowSizes] :
       \E settings \in NarrowSettings :
         raster = Apply("generateSmartStitch", [images |-> images, settings |-> settings])

NextNarrow == SmartStitchLayout

SpecNarrow == InitNarrow /\ [][NextNarrow]_vars

\* Every raster operation on up to MaxSources sources, each of which may or
\* may not decode.
RECURSIVE SourceLists(_)
SourceLists(n) ==
  IF n = 0 THEN {<<>>}
  ELSE SourceLists(n - 1)
         \cup {Append(l, Source(1, 1, ok)) :
                 l \in {k \in SourceLists(n - 1) : Len(k) = n - 1}, ok \in BOOLEAN}

RasterOps == {"cropImage", "generateCompositeImage", "generateStitchedCanvas",
              "generateSmartStitch"}

InitRaster ==
  /\ AppInit
  /\ \E op \in RasterOps, sources \in SourceLists(MaxSources) \ {<<>>} :
       /\ op = "cropImage" => Len(sources) = 1
       /\ raster = Apply(op, sources)

NextRaster ==
  \/ CropImage
  \/ GenerateCompositeImage
  \/ GenerateStitchedCanvas
  \/ \E i \in 1..MaxSources : SmartStitchDraw(i)
  \/ SmartStitchDone

SpecRaster == InitRaster /\ [][NextRaster]_vars

\* -------------------------------------------------------------- properties
AllCrops ==
  UNION {Range(layers[i].crops) : i \in DOMAIN layers}
  \cup UNION {Range(groups[i].crops) : i \in DOMAIN groups}

InBounds(c) ==
  /\ 0 <= c.x /\ 0 <= c.y
  /\ c.x + c.width <= 100 /\ c.y + c.height <= 100
  /\ c.width >= 1 /\ c.height >= 1

\* C1: every region committed to an owner's region list lies inside the image
\* box and is at least 1% wide and high: 0 <= x, 0 <= y, x + width <= 100,
\* y + height <= 100, width >= 1, height >= 1.
C1_CommittedRegionsInBounds == \A c \in AllCrops : InBounds(c)

Resizing == interaction # None /\ interaction[1].mode \in Handles

\* the corner diagonally opposite the dragged handle
OppositeCorner(c, handle) ==
  CASE handle = "resize-nw" -> <<c.x + c.width, c.y + c.height>>
    [] handle = "resize-ne" -> <<c.x, c.y + c.height>>
    [] handle = "resize-sw" -> <<c.x + c.width, c.y>>
    [] handle = "resize-se" -> <<c.x, c.y>>

\* C2: while Resizing, the ephemeral rectangle has the corner diagonally
\* opposite the dragged handle where the pointer-down snapshot has it.
C2_OppositeCornerFixed ==
  (Resizing /\ optimisticCrop # None) =>
     OppositeCorner(optimisticCrop[1], interaction[1].mode)
       = OppositeCorner(interaction[1].initialCrop[1], interaction[1].mode)

\* a pointer-move of a resize from the top-left handle has moved both x and y
\* and changed both sizes
C2_Witness ==
  /\ Resizing
  /\ interaction[1].mode = "resize-nw"
  /\ optimisticCrop # None
  /\ optimisticCrop[1].x # interaction[1].initialCrop[1].x
  /\ optimisticCrop[1].y # interaction[1].initialCrop[1].y
  /\ optimisticCrop[1].width # interaction[1].initialCrop[1].width

Modifying == interaction # None /\ interaction[1].mode # "create"

\* the owner's list after the step differs from the one before in the region
\* `id` at most; nothing else of any layer or group differs
OnlyRegionReplaced(id) ==
  LET sameBut(before, after) ==
        /\ Len(after) = Len(before)
        /\ \A i \in DOMAIN before :
             /\ after[i].id = before[i].id
             /\ before[i].id # id => after[i] = before[i]
  IN /\ Len(layers') = Len(layers)
     /\ Len(groups') = Len(groups)
     /\ \A i \in DOMAIN layers :
          /\ layers'[i].id = layers[i].id
          /\ layers'[i].groupId = layers[i].groupId
          /\ sameBut(layers[i].crops, layers'[i].crops)
     /\ \A i \in DOMAIN groups :
          /\ [groups'[i] EXCEPT !.crops = <<>>] = [groups[i] EXCEPT !.crops = <<>>]
          /\ sameBut(groups[i].crops, groups'[i].crops)

\* C3: during a Moving or Resizing gesture a pointer-move leaves every owner's
\* committed region list as it is; the pointer-up writes the list once,
\* replacing at most the gesture's region, and leaves the interaction Idle.
C3_CommitOnlyOnRelease ==
  [][Modifying =>
       /\ (\E pos \in Points : handleWindowMouseMove(pos)) => UNCHANGED <<layers, groups>>
       /\ (\E pos \in Points : handleWindowMouseUp(pos)) =>
            /\ interaction' = None
            /\ optimisticCrop' = None
            /\ OnlyRegionReplaced(interaction[1].activeId)]_vars

\* a Moving gesture whose ephemeral rectangle has left the committed one, on
\* an owner with a second region
C3_Witness ==
  /\ Modifying
  /\ interaction[1].mode = "move"
  /\ optimisticCrop # None
  /\ Len(CropperLayer.crops) = 2
  /\ \E i \in DOMAIN CropperLayer.crops :
       /\ CropperLayer.crops[i].id = optimisticCrop[1].id
       /\ CropperLayer.crops[i].x # optimisticCrop[1].x

\* the pointer and keyboard handlers of the cropper
PointerOrKeyEvent ==
  \/ \E pos \in Points : handleMouseDown(pos)
  \/ \E pos \in Points : \E i \in DOMAIN displayedCrops : handleCropMouseDown(displayedCrops[i], pos)
  \/ \E h \in Handles : \E i \in DOMAIN displayedCrops : handleResizeMouseDown(displayedCrops[i], h)
  \/ \E pos \in Points : handleWindowMouseMove(pos)
  \/ \E pos \in Points : handleWindowMouseUp(pos)
  \/ handleKeyDown
  \/ DeleteButton
  \/ ClearActiveCrop

LockedCropsKept(before, after) ==
  \A i \in DOMAIN before :
     before[i].isLocked =>
       \E j \in DOMAIN after :
          /\ after[j].id = before[i].id
          /\ after[j].x = before[i].x /\ after[j].y = before[i].y
          /\ after[j].width = before[i].width /\ after[j].height = before[i].height

\* C4: no pointer or keyboard event changes x, y, width or height of a region
\* that is locked when the event arrives, or removes it from its owner's list.
C4_LockedRegionsUntouched ==
  [][PointerOrKeyEvent =>
       /\ \A i \in DOMAIN layers :
            \A j \in DOMAIN layers' :
               layers'[j].id = layers[i].id => LockedCropsKept(layers[i].crops, layers'[j].crops)
       /\ \A i \in DOMAIN groups :
            \A j \in DOMAIN groups' :
               groups'[j].id = groups[i].id => LockedCropsKept(groups[i].crops, groups'[j].crops)]_vars

\* C5: every layer's groupId names an existing group and every id in every
\* group's layerIds names an existing layer, after every asset graph operation.
C5_NoDanglingReferences ==
  /\ \A i \in DOMAIN layers : layers[i].groupId # 0 => layers[i].groupId \in GroupIds
  /\ \A i \in DOMAIN groups : Range(groups[i].layerIds) \subseteq LayerIds

Occurrences(s, v) == Cardinality({i \in DOMAIN s : s[i] = v})

\* C6: membership is exclusive: a layer has groupId = G exactly when its id
\* occurs in G's layerIds, it occurs there once, and in no other group's.
C6_ExclusiveMembership ==
  \A i \in DOMAIN layers :
     \A j \in DOMAIN groups :
        /\ layers[i].groupId = groups[j].id <=> layers[i].id \in Range(groups[j].layerIds)
        /\ Occurrences(groups[j].layerIds, layers[i].id) <= 1

\* the groups whose parentGroupId chain leads to id, and id itself
RECURSIVE Descendants(_, _, _)
Descendants(gs, ids, fuel) ==
  LET more == ids \cup {gs[i].id : i \in {j \in DOMAIN gs : gs[j].parentGroupId \in ids}}
  IN IF fuel = 0 \/ more = ids THEN ids ELSE Descendants(gs, more, fuel - 1)

\* C7: deleting a group removes it, every descendant group and every layer in
\* the layerIds of any of them; no remaining layer has the groupId of a deleted
\* group; an active asset among the deleted ones is cleared.
C7_DeleteGroupRemovesSubtree ==
  [][\A id \in AssetIds :
       handleDeleteGroup(id) =>
         LET gone == Descendants(groups, {id}, Len(groups))
             goneLayers == UNION {Range(groups[i].layerIds) :
                                    i \in {j \in DOMAIN groups : groups[j].id \in gone}}
         IN /\ \A i \in DOMAIN groups' : groups'[i].id \notin gone
            /\ \A i \in DOMAIN layers' :
                 /\ layers'[i].id \notin goneLayers
                 /\ layers'[i].groupId \notin gone
            /\ activeAssetId \in gone \cup goneLayers => activeAssetId' = 0]_vars

Resolves(ownerId, regionId) ==
  \/ \E i \in DOMAIN layers :
        /\ layers[i].id = ownerId
        /\ \E k \in DOMAIN layers[i].crops : layers[i].crops[k].id = regionId
  \/ \E i \in DOMAIN groups :
        /\ groups[i].id = ownerId
        /\ \E k \in DOMAIN groups[i].crops : groups[i].crops[k].id = regionId

\* C8: each stitch item's layerId names an existing layer or group and its
\* cropId names a region in that owner's list, in every reachable state.
C8_QueueItemsResolve ==
  \A i \in DOMAIN stitchItems : Resolves(stitchItems[i].layerId, stitchItems[i].cropId)

\* C9: the stitch handler appends exactly one item, for the pair it was given,
\* when the pair resolves, and leaves the queue, the layers and the groups as
\* they are when the owner id names no layer or group or the region id is not
\* in that owner's list.
C9_EnqueueOnlyResolvingPairs ==
  [][\A layerId \in AssetIds, cropId \in RegionIds :
       onAddToStitch(layerId, cropId) =>
         IF Resolves(layerId, cropId)
         THEN /\ Len(stitchItems') = Len(stitchItems) + 1
              /\ SubSeq(stitchItems', 1, Len(stitchItems)) = stitchItems
              /\ stitchItems'[Len(stitchItems')].layerId = layerId
              /\ stitchItems'[Len(stitchItems')].cropId = cropId
         ELSE UNCHANGED <<stitchItems, layers, groups>>]_vars

\* C10: for a displayed group with no generation left in flight, the stored
\* stitched image is the one computed from the group's current members, in
\* whatever order the generations finished.
C10_StoredImageIsLatest ==
  (/\ MountKind(layers, groups, activeAssetId) = "group"
   /\ generations = {}
   /\ GroupSources(activeGroup[1].layerIds, layers) # <<>>)
  => stitchedData = Some(generateStitchedCanvas(GroupSources(activeGroup[1].layerIds, layers)))


\* ---------------------------------------------------------------- C11
LayerIdSeq == [i \in DOMAIN layers |-> layers[i].id]
GivenLayers == {layers[i].id : i \in {j \in DOMAIN layers :
                   layers[j].id \in selectedLibraryIds /\ layers[j].groupId = 0}}

\* C11: grouping two or more ungrouped layers appends exactly one new group
\* whose members are those layers in the given (library) order and sets the
\* groupId of each of them to the new group; with fewer than two ungrouped
\* layers neither the layers nor the groups change
C11_GroupCreatesOneGroup ==
  [][handleCreateGroup =>
       IF Cardinality(GivenLayers) >= 2
       THEN /\ groups' = Append(groups, [id |-> nextId.asset,
                                         layerIds |-> FilterSeq(LayerIdSeq, GivenLayers),
                                         crops |-> <<>>, parentGroupId |-> 0])
            /\ layers' = [i \in DOMAIN layers |->
                            IF layers[i].id \in GivenLayers
                            THEN [layers[i] EXCEPT !.groupId = nextId.asset]
                            ELSE layers[i]]
       ELSE UNCHANGED <<layers, groups>>]_vars

\* three imported layers grouped in one step from the selection
C11_Witness ==
  /\ Len(groups) = 1
  /\ groups[1].layerIds = <<1, 2, 3>>
  /\ \A i \in DOMAIN layers : layers[i].groupId = groups[1].id
  /\ activeAssetId = groups[1].id
  /\ selectedLibraryIds = {}
  /\ ~isSelectionMode
  /\ nextId.asset = 5


\* ---------------------------------------------------------------- C12
GroupOf(gs, id) == FindIn(gs, id)[1]

\* C12: ungrouping G removes G from the groups and nothing else, clears the
\* groupId of every member layer of G without deleting any layer, and clears
\* the parentGroupId of G's child groups without deleting them
C12_UngroupKeepsMembersAndChildren ==
  [][\A g \in AssetIds : handleUngroup(g) =>
       /\ GroupIds' = GroupIds \ {g}
       /\ Len(groups') = Len(groups) - 1
       /\ \A i \in DOMAIN groups' :
            LET before == GroupOf(groups, groups'[i].id)
            IN groups'[i] = IF before.parentGroupId = g
                            THEN [before EXCEPT !.parentGroupId = 0] ELSE before
       /\ [i \in DOMAIN layers' |-> layers'[i].id] = LayerIdSeq
       /\ \A i \in DOMAIN layers :
            layers'[i] = IF layers[i].id \in Range(GroupOf(groups, g).layerIds)
                         THEN [layers[i] EXCEPT !.groupId = 0] ELSE layers[i]]_vars

\* the parent group 3 of subgroup 5 was ungrouped: its members 1 and 2 and
\* its child are still there, all at the root
C12_Witness ==
  /\ GroupIds = {5}
  /\ GroupOf(groups, 5).parentGroupId = 0
  /\ GroupOf(groups, 5).layerIds = <<4>>
  /\ LayerIdSeq = <<1, 2, 4>>
  /\ layers[1].groupId = 0 /\ layers[2].groupId = 0 /\ layers[3].groupId = 5


\* ---------------------------------------------------------------- C13
Without(seq, v) == SelectSeq(seq, LAMBDA m : m # v)

\* C13: deleting layer L removes L from the layers and from the members of
\* every group, keeps the relative order of the remaining layers and members,
\* and removes no group, not even one left with one member or none
C13_DeleteLayerKeepsGroups ==
  [][\A id \in AssetIds : handleDeleteLayer(id) =>
       /\ layers' = SelectSeq(layers, LAMBDA l : l.id # id)
       /\ DOMAIN groups' = DOMAIN groups
       /\ \A i \in DOMAIN groups :
            groups'[i] = [groups[i] EXCEPT !.layerIds = Without(groups[i].layerIds, id)]]_vars

\* both members of group 3 were deleted one after the other: the group is
\* still there, empty
C13_Witness ==
  /\ layers = <<>>
  /\ Len(groups) = 1
  /\ groups[1].id = 3
  /\ groups[1].layerIds = <<>>
  /\ nextId.asset = 4


\* ---------------------------------------------------------------- C14
LayerOf(ls, id) == FindIn(ls, id)[1]

\* the group a drop on target moves the dragged layer to: the target group, or
\* the group of the target layer; 0 when the target is an ungrouped layer
DropOwner(target, isGroup) ==
  IF isGroup THEN target
  ELSE IF target \in LayerIds THEN LayerOf(layers, target).groupId ELSE 0

\* the dragged layer exists and the drop gives it another owner
Reparents(target, isGroup) ==
  /\ draggedLibraryItemId \in LayerIds
  /\ draggedLibraryItemId # target
  /\ IF isGroup THEN target \in GroupIds ELSE target \in LayerIds
  /\ \/ DropOwner(target, isGroup) = 0
     \/ DropOwner(target, isGroup) # LayerOf(layers, draggedLibraryItemId).groupId

\* the previous group of the dragged layer L lost L and kept the order of the rest
DetachedFrom(L) ==
  LET prev == LayerOf(layers, L).groupId
  IN prev \in GroupIds =>
       /\ prev \in GroupIds'
       /\ GroupOf(groups', prev).layerIds = Without(GroupOf(groups, prev).layerIds, L)

\* C14: moving layer L onto a group, or onto a layer inside a group, appends L
\* at the end of that group's members and sets L.groupId to it; moving L onto an
\* ungrouped layer creates a new group of [target, L]; in both cases the group L
\* was in before loses L and keeps the order of its other members
C14_MoveLayerReparents ==
  [][\A target \in AssetIds, isGroup \in BOOLEAN :
       (handleLibraryDropItem(target, isGroup) /\ Reparents(target, isGroup)) =>
         LET L == draggedLibraryItemId
             owner == DropOwner(target, isGroup)
         IN /\ DetachedFrom(L)
            /\ IF owner # 0
               THEN /\ GroupOf(groups', owner).layerIds
                         = Append(GroupOf(groups, owner).layerIds, L)
                    /\ LayerOf(layers', L).groupId = owner
                    /\ Len(groups') = Len(groups)
               ELSE /\ Len(groups') = Len(groups) + 1
                    /\ groups'[Len(groups')] = [id |-> nextId.asset,
                                                layerIds |-> <<target, L>>,
                                                crops |-> <<>>, parentGroupId |-> 0]
                    /\ LayerOf(layers', L).groupId = nextId.asset
                    /\ LayerOf(layers', target).groupId = nextId.asset]_vars

\* layer 1 was moved out of group 4 onto the root layer 3 (new group 5), then
\* layer 2 was moved from group 4 onto group 5
C14_Witness ==
  /\ Len(groups) = 2
  /\ groups[1].id = 4 /\ groups[1].layerIds = <<>>
  /\ groups[2].id = 5 /\ groups[2].layerIds = <<3, 1, 2>>
  /\ \A i \in DOMAIN layers : layers[i].groupId = 5


\* ---------------------------------------------------------------- C15
\* group G after the step holds its former member at fromIndex at toIndex, the
\* other members in their former order, and nothing else changed anywhere
PureListMove(G, fromIndex, toIndex) ==
  LET old == GroupOf(groups, G).layerIds
      new == GroupOf(groups', G).layerIds
      moved == old[fromIndex]
  IN /\ Len(new) = Len(old)
     /\ new[toIndex] = moved
     /\ Without(new, moved) = Without(old, moved)
     /\ DOMAIN groups' = DOMAIN groups
     /\ \A i \in DOMAIN groups :
          groups'[i] = IF groups[i].id = G THEN [groups[i] EXCEPT !.layerIds = new]
                       ELSE groups[i]
     /\ layers' = layers

\* the drop of the dragged layer on a layer of its own group
ReordersWithin(target) ==
  /\ draggedLibraryItemId \in LayerIds
  /\ target \in LayerIds
  /\ draggedLibraryItemId # target
  /\ LayerOf(layers, draggedLibraryItemId).groupId # 0
  /\ LayerOf(layers, draggedLibraryItemId).groupId \in GroupIds
  /\ LayerOf(layers, target).groupId = LayerOf(layers, draggedLibraryItemId).groupId

\* C15: reordering the members of group G from one index to another, both
\* inside the member list, gives a permutation of the members with the member
\* formerly at the first index now at the second, and changes nothing else: the
\* other fields of G, every other group and every layer stay as they were
C15_ReorderIsPureListMove ==
  [][/\ \A fromIndex, toIndex \in 1..MaxAssets :
          ArrangeDrop(fromIndex, toIndex) => PureListMove(activeAssetId, fromIndex, toIndex)
     /\ \A target \in AssetIds :
          (handleLibraryDropItem(target, FALSE) /\ ReordersWithin(target)) =>
            LET G == LayerOf(layers, target).groupId
                ids == GroupOf(groups, G).layerIds
            IN PureListMove(G, IndexOf(ids, draggedLibraryItemId), IndexOf(ids, target))]_vars

\* the last of the three members of group 4 was moved to the front in the
\* arrange strip
C15_Witness ==
  /\ isArrangeMode
  /\ activeAssetId = 4
  /\ Len(groups) = 1
  /\ groups[1].id = 4
  /\ groups[1].layerIds = <<3, 1, 2>>
  /\ LayerIdSeq = <<1, 2, 3>>


\* ---------------------------------------------------------------- C16
\* what member id contributes: its own raster with the replacements of its
\* replaced regions painted over it, in region order (none: the raw source)
MemberSource(id, ls) ==
  LET replaced == SelectSeq(LayerOf(ls, id).crops, LAMBDA c : c.replacementSrc # 0)
  IN [base |-> id,
      overlays |-> [k \in DOMAIN replaced |->
                      [x |-> replaced[k].x, y |-> replaced[k].y,
                       width |-> replaced[k].width, height |-> replaced[k].height,
                       src |-> replaced[k].replacementSrc]]]

ExpectedSources(G, gs, ls) ==
  LET present == SelectSeq(GroupOf(gs, G).layerIds,
                           LAMBDA id : \E i \in DOMAIN ls : ls[i].id = id)
  IN [k \in DOMAIN present |-> MemberSource(present[k], ls)]

\* C16: every computation of a group's virtual image that starts takes exactly
\* the group's member layers in memberLayerIds order and, for each member, the
\* composite when at least one of its regions has a replacement and the raw
\* source otherwise
C16_VirtualImageFromMembersInOrder ==
  [][\A srcs \in generations' \ generations :
       /\ activeAssetId' \in GroupIds'
       /\ srcs = ExpectedSources(activeAssetId', groups', layers')]_vars

\* a computation in flight over two members, one of them composited
C16_Witness ==
  \E srcs \in generations :
    /\ Len(srcs) >= 2
    /\ \E k \in DOMAIN srcs : srcs[k].overlays # <<>>
    /\ \E k \in DOMAIN srcs : srcs[k].overlays = <<>>
    /\ srcs = ExpectedSources(activeAssetId, groups, layers)


\* ---------------------------------------------------------------- C17
\* C17: when the recomputation of a group's virtual image fails because a
\* member source cannot be decoded, the virtual image stored before is still
\* stored: it is neither cleared nor replaced
C17_FailureKeepsStoredImage ==
  [][\A srcs \in generations : GenerationFailed(srcs) => stitchedData' = stitchedData]_vars

\* the recomputation with the replacement failed: the stored image is still
\* the one of the raw sources
C17_Witness ==
  /\ generations = {}
  /\ activeAssetId \in GroupIds
  /\ stitchedData # None
  /\ \A k \in DOMAIN stitchedData[1].items : stitchedData[1].items[k].overlays = <<>>
  /\ \E k \in DOMAIN ExpectedSources(activeAssetId, groups, layers) :
       ExpectedSources(activeAssetId, groups, layers)[k].overlays # <<>>


\* ---------------------------------------------------------------- C18
Stitched == raster.op = "generateStitchedCanvas" /\ raster.outcome = "resolved"

\* the ceiling of the exact sum of maxHeight * width / height over the images
RECURSIVE HeightProduct(_)
HeightProduct(images) ==
  IF images = <<>> THEN 1 ELSE Head(images).height * HeightProduct(Tail(images))

RECURSIVE ScaledNumerator(_, _, _)
ScaledNumerator(images, maxHeight, denominator) ==
  IF images = <<>> THEN 0
  ELSE maxHeight * Head(images).width * (denominator \div Head(images).height)
       + ScaledNumerator(Tail(images), maxHeight, denominator)

ExactCeilOfScaledSum(images) ==
  LET d == HeightProduct(images)
  IN (ScaledNumerator(images, MaxHeightOf(images), d) + d - 1) \div d

\* C18: the canvas of a horizontal stitch of a non-empty list is as high as the
\* tallest source, H, and as wide as the ceiling of the sum of H * width / height
\* over the sources; the sources are drawn left to right at height H, each
\* starting where the previous one ended
C18_CanvasIsCeilOfScaledSum ==
  Stitched =>
    /\ raster.output.height = MaxHeightOf(raster.input)
    /\ raster.output.width = ExactCeilOfScaledSum(raster.input)
    /\ \A i \in DOMAIN raster.input :
         /\ raster.output.draws[i].image = raster.input[i]
         /\ raster.output.draws[i].height = MaxHeightOf(raster.input)
         /\ raster.output.draws[i].x = WidthUpTo(raster.input, i - 1)

\* ---------------------------------------------------------------- C19
Swapped(images) == <<images[2], images[1]>>

\* C19: stitching [A, B] and [B, A] gives canvases of the same width and
\* height with the two sources drawn in swapped order, and stitching [A] alone
\* gives a canvas of exactly A's width and height
C19_SwapAndSingleSource ==
  Stitched =>
    /\ Len(raster.input) = 2 =>
         LET other == StitchedCanvas(Swapped(raster.input))
         IN /\ other.width = raster.output.width
            /\ other.height = raster.output.height
            /\ other.draws[1].image = raster.output.draws[2].image
            /\ other.draws[2].image = raster.output.draws[1].image
    /\ Len(raster.input) = 1 =>
         /\ raster.output.width = raster.input[1].width
         /\ raster.output.height = raster.input[1].height


\* ---------------------------------------------------------------- C20
\* C20: when one of its sources cannot be decoded, a raster operation (crop,
\* composite, horizontal stitch, justified layout) returns no output image, in
\* particular none built from only the sources that did decode, and it ends in
\* a failed outcome
C20_DecodeFailureFails ==
  (raster.op \in RasterOps /\ ~AllDecode(raster.input)) =>
    /\ raster.outcome # "resolved"
    /\ raster.output = <<>>
    /\ ~ENABLED NextRaster => raster.outcome = "rejected"

LayoutDone == raster.op = "generateSmartStitch" /\ raster.output # <<>>

LayoutRows == raster.output.rows

ProvisionalWidth(img, settings) ==
  Multiply(Divide(img.width, img.height), settings.targetRowHeight)

\* the provisional widths of the first n items of a row, added in order
RECURSIVE ProvisionalSum(_, _, _)
ProvisionalSum(items, n, settings) ==
  IF n = 0 THEN Zero
  ELSE Add(ProvisionalSum(items, n - 1, settings), ProvisionalWidth(items[n].img, settings))

ReachesContainer(items, n, settings) ==
  Compare(Add(ProvisionalSum(items, n, settings), FromInt((n - 1) * settings.spacing)),
          FromInt(settings.containerWidth)) >= 0

RECURSIVE SumOfAspectRatios(_, _)
SumOfAspectRatios(items, n) ==
  IF n = 0 THEN Zero
  ELSE Add(SumOfAspectRatios(items, n - 1), Divide(items[n].img.width, items[n].img.height))

RECURSIVE ImagesOfRows(_, _)
ImagesOfRows(rows, i) ==
  IF i = 0 THEN <<>>
  ELSE ImagesOfRows(rows, i - 1) \o [k \in DOMAIN rows[i].items |-> rows[i].items[k].img]

StretchedHeight(items, settings) ==
  Over(FromInt(settings.containerWidth - 2 * settings.spacing
                 - (Len(items) - 1) * settings.spacing),
       SumOfAspectRatios(items, Len(items)))

HasAspectRatio(img, num, den) == Compare(Divide(img.width, img.height), Divide(num, den)) = 0

SpecExample ==
  /\ raster.input.settings = Settings(1200, 300, 12)
  /\ Len(raster.input.images) = 3
  /\ HasAspectRatio(raster.input.images[1], 2, 1)
  /\ HasAspectRatio(raster.input.images[2], 1, 1)
  /\ HasAspectRatio(raster.input.images[3], 3, 2)

\* C21: the rows of the justified layout are the images in order, cut as soon
\* as the provisional widths plus the gaps reach containerWidth (no row has a
\* proper prefix that reaches it, and every row but the last reaches it), and
\* every row that is not exempt has the height
\* (containerWidth - 2*spacing - (count-1)*spacing) / sum(aspectRatio); the
\* example 1200/300/12 with aspect ratios 2, 1, 1.5 is one row of height 256.
C21_RowsCloseAtContainerWidth ==
  LayoutDone =>
    /\ ImagesOfRows(LayoutRows, Len(LayoutRows)) = raster.input.images
    /\ \A i \in DOMAIN LayoutRows :
         /\ Len(LayoutRows[i].items) >= 1
         /\ \A n \in 1..(Len(LayoutRows[i].items) - 1) :
              ~ReachesContainer(LayoutRows[i].items, n, raster.input.settings)
         /\ i < Len(LayoutRows) =>
              ReachesContainer(LayoutRows[i].items, Len(LayoutRows[i].items),
                               raster.input.settings)
         /\ ~LayoutRows[i].exempt =>
              Compare(LayoutRows[i].height,
                      StretchedHeight(LayoutRows[i].items, raster.input.settings)) = 0
    /\ SpecExample =>
         /\ Len(LayoutRows) = 1
         /\ Compare(LayoutRows[1].height, FromInt(256)) = 0

C21_Witness ==
  /\ LayoutDone
  /\ SpecExample
  /\ Len(LayoutRows) = 1
  /\ ~LayoutRows[1].exempt
  /\ Compare(LayoutRows[1].height, FromInt(256)) = 0

\* rounding tolerance of the layout sums: 2^-20 of a pixel
Tolerance == [m |-> <<1>>, e |-> -20]

Within(x, y) ==
  /\ Compare(Add(x, Tolerance), y) >= 0
  /\ Compare(Add(y, Tolerance), x) >= 0

\* (width + spacing) summed over the first n items of a row
RECURSIVE WidthsAndSpacing(_, _, _)
WidthsAndSpacing(items, n, settings) ==
  IF n = 0 THEN Zero
  ELSE Add(WidthsAndSpacing(items, n - 1, settings),
           Add(items[n].width, FromInt(settings.spacing)))

RECURSIVE SumOfRowHeights(_, _)
SumOfRowHeights(rows, i) ==
  IF i = 0 THEN Zero ELSE Add(SumOfRowHeights(rows, i - 1), rows[i].height)

HeightsAndSpacing ==
  Add(SumOfRowHeights(LayoutRows, Len(LayoutRows)),
      FromInt(raster.input.settings.spacing * (Len(LayoutRows) + 1)))

\* the row's widths and gaps, without the trailing gap, come to total
RowSpans(items, total, settings) ==
  Within(WidthsAndSpacing(items, Len(items), settings), FromInt(total + settings.spacing))

BelowThreshold(items, settings) ==
  Compare(SumOfAspectRatios(items, Len(items)),
          Times(Divide(3, 5),
                Divide(settings.containerWidth - 2 * settings.spacing
                         - (Len(items) - 1) * settings.spacing,
                       settings.targetRowHeight))) < 0

IsStretched(row, settings) ==
  /\ ~row.exempt
  /\ Compare(row.height, StretchedHeight(row.items, settings)) = 0

KeepsTarget(row, settings) ==
  /\ row.exempt
  /\ Compare(row.height, FromInt(settings.targetRowHeight)) = 0

\* C23: a row of the justified layout keeps targetRowHeight exactly when it
\* is the last row and its summed aspect ratio is below
\* 0.6 * (availableWidth / targetRowHeight); every other row, and a last row
\* at or above the threshold, has the height that fills the width.
C23_OnlySparseLastRowKeepsTarget ==
  LayoutDone =>
    \A i \in DOMAIN LayoutRows :
      IF i = Len(LayoutRows) /\ BelowThreshold(LayoutRows[i].items, raster.input.settings)
      THEN KeepsTarget(LayoutRows[i], raster.input.settings)
      ELSE IsStretched(LayoutRows[i], raster.input.settings)

C23_Witness ==
  /\ LayoutDone
  /\ Len(LayoutRows) >= 2
  /\ KeepsTarget(LayoutRows[Len(LayoutRows)], raster.input.settings)
  /\ Compare(LayoutRows[Len(LayoutRows)].height,
             StretchedHeight(LayoutRows[Len(LayoutRows)].items, raster.input.settings)) # 0
  /\ IsStretched(LayoutRows[1], raster.input.settings)

\* the region a queue item names, when its owner and the region exist
QueuedRegion(item) ==
  IF FindIn(layers, item.layerId) # None
  THEN FindIn(FindIn(layers, item.layerId)[1].crops, item.cropId)
  ELSE IF FindIn(groups, item.layerId) # None
  THEN FindIn(FindIn(groups, item.layerId)[1].crops, item.cropId)
  ELSE None

\* with no image load in flight, every queued region that has a replacement
\* is shown in the stitch view by that replacement
PreviewShowsReplacements ==
  (activeTab = "stitch" /\ loadRuns = {}) =>
    \A i \in DOMAIN stitchItems :
      LET region == QueuedRegion(stitchItems[i])
      IN (region # None /\ region[1].replacementSrc # 0) =>
           /\ CacheKey(stitchItems[i]) \in DOMAIN renderedImages
           /\ renderedImages[CacheKey(stitchItems[i])]
                = ReplacementImage(region[1].replacementSrc)

\* a download of a region that has a replacement is that replacement
DownloadIsReplacement ==
  (downloaded' # downloaded /\ activeCrop # None /\ activeCrop[1].replacementSrc # 0) =>
    downloaded' = Some(ReplacementImage(activeCrop[1].replacementSrc))

\* C24: for a region whose replacementSrc is set, the image that is downloaded
\* and the image of its item in the stitch view are its current
\* replacementSrc, also when the replacement arrives after the region was
\* queued and rendered once.
C24_ReplacementIsWhatIsShown ==
  [][DownloadIsReplacement /\ PreviewShowsReplacements']_vars

\* the region cropId of the layer or group ownerId in (ls, gs), as a nullable
RegionOf(ls, gs, ownerId, cropId) ==
  IF FindIn(ls, ownerId) # None THEN FindIn(FindIn(ls, ownerId)[1].crops, cropId)
  ELSE IF FindIn(gs, ownerId) # None THEN FindIn(FindIn(gs, ownerId)[1].crops, cropId)
  ELSE None

LockedBefore(ownerId, cropId) ==
  /\ RegionOf(layers, groups, ownerId, cropId) # None
  /\ RegionOf(layers, groups, ownerId, cropId)[1].isLocked

\* a step that gives a region a replacementSrc it did not have finds it locked
ReplacedOnlyWhileLocked ==
  \A ownerId \in AssetIds, cropId \in RegionIds :
    LET before == RegionOf(layers, groups, ownerId, cropId)
        after == RegionOf(layers', groups', ownerId, cropId)
    IN (/\ after # None
        /\ after[1].replacementSrc # 0
        /\ (before = None \/ before[1].replacementSrc # after[1].replacementSrc))
       => LockedBefore(ownerId, cropId)

\* a step that appends an item to the queue finds its region locked
QueuedOnlyWhileLocked ==
  Len(stitchItems') > Len(stitchItems) =>
    LockedBefore(stitchItems'[Len(stitchItems')].layerId,
                 stitchItems'[Len(stitchItems')].cropId)

\* C25: no step sets replacementSrc on, or enqueues, a region that is not
\* locked in the state the step is applied to.
C25_ReplaceAndQueueOnlyLocked ==
  [][ReplacedOnlyWhileLocked /\ QueuedOnlyWhileLocked]_vars

GraphAndQueueKept == UNCHANGED <<layers, groups, stitchItems, activeAssetId>>

\* the step takes a file that is not an image, or ends a decode that failed
ImportRejected ==
  \/ processFile(OtherFile)
  \/ \E i \in DOMAIN pendingImports : ~pendingImports[i].decodes /\ ImportFailed(i)

\* the step ends a decode that succeeded
ImportSucceeded == \E i \in DOMAIN pendingImports : ImportLoaded(i)

AppendsOneEmptyLayer ==
  /\ Len(layers') = Len(layers) + 1
  /\ SubSeq(layers', 1, Len(layers)) = layers
  /\ layers'[Len(layers')].crops = <<>>
  /\ layers'[Len(layers')].groupId = 0
  /\ layers'[Len(layers')].id \notin LayerIds \cup GroupIds
  /\ groups' = groups
  /\ stitchItems' = stitchItems

\* C26: an import of a file that is not an image, or whose decode fails,
\* leaves layers, groups, the stitch queue and the active asset as they were
\* (and so does the start of any file read); a successful import appends
\* exactly one layer with no regions and no groupId.
C26_RejectedImportChangesNothing ==
  [][/\ ImportRejected => GraphAndQueueKept
     /\ Len(pendingImports') > Len(pendingImports) => GraphAndQueueKept
     /\ ImportSucceeded => AppendsOneEmptyLayer]_vars

\* a broken file is being decoded into a library with a group, a queued
\* region and an active asset
C26_Witness ==
  /\ pendingImports # <<>>
  /\ ~pendingImports[1].decodes
  /\ groups # <<>>
  /\ stitchItems # <<>>
  /\ activeAssetId # 0
  /\ \E i \in DOMAIN layers : layers[i].crops = <<>>

\* following parentGroupId from the group id for at most fuel steps ends at a
\* root group
RECURSIVE ReachesRoot(_, _, _)
ReachesRoot(gs, id, fuel) ==
  LET g == FindIn(gs, id)
  IN /\ g # None
     /\ \/ g[1].parentGroupId = 0
        \/ fuel > 0 /\ ReachesRoot(gs, g[1].parentGroupId, fuel - 1)

\* C27: the groups form a forest: every parentGroupId that is set names an
\* existing group, and following parentGroupId from any group ends at a root
\* without coming back to the group.
C27_GroupsFormForest ==
  \A i \in DOMAIN groups :
    /\ groups[i].parentGroupId # 0 => groups[i].parentGroupId \in GroupIds
    /\ ReachesRoot(groups, groups[i].id, Len(groups))

Creating == interaction # None /\ interaction[1].mode = "create"

\* the rectangle between the anchor of the gesture and the pointer
DraggedRect(pos) ==
  [x |-> IF interaction[1].startX < pos[1] THEN interaction[1].startX ELSE pos[1],
   y |-> IF interaction[1].startY < pos[2] THEN interaction[1].startY ELSE pos[2],
   width |-> IF pos[1] >= interaction[1].startX THEN pos[1] - interaction[1].startX
             ELSE interaction[1].startX - pos[1],
   height |-> IF pos[2] >= interaction[1].startY THEN pos[2] - interaction[1].startY
              ELSE interaction[1].startY - pos[2]]

\* the region list of the displayed owner grows by one fresh region on rect
AppendsRegionOn(rect) ==
  LET before == CropperLayer.crops
      after == CropperLayer'.crops
  IN /\ Len(after) = Len(before) + 1
     /\ SubSeq(after, 1, Len(before)) = before
     /\ \A i \in DOMAIN before : before[i].id # after[Len(after)].id
     /\ after[Len(after)].x = rect.x
     /\ after[Len(after)].y = rect.y
     /\ after[Len(after)].width = rect.width
     /\ after[Len(after)].height = rect.height
     /\ ~after[Len(after)].isLocked
     /\ after[Len(after)].replacementSrc = 0
     /\ ~after[Len(after)].isStitched
     /\ activeCropId' = after[Len(after)].id

Moving == interaction # None /\ interaction[1].mode = "move"

Clamp(v, lo, hi) == IF v < lo THEN lo ELSE IF v > hi THEN hi ELSE v

\* the region as it was at pointer-down, displaced by the pointer's distance
\* from the pointer-down position and kept inside the image
MovedSnapshot(pos) ==
  LET snapshot == interaction[1].initialCrop[1]
  IN [snapshot EXCEPT
        !.x = Clamp(snapshot.x + (pos[1] - interaction[1].startX), 0, 100 - snapshot.width),
        !.y = Clamp(snapshot.y + (pos[2] - interaction[1].startY), 0, 100 - snapshot.height)]

\* C29: every pointer-move while Moving yields x = clamp(snapshot.x + dx, 0,
\* 100 - snapshot.width) and y = clamp(snapshot.y + dy, 0, 100 - snapshot.height)
\* with dx, dy measured from the pointer-down position and the snapshot's width
\* and height; the result is a function of the snapshot and the pointer
\* position alone, whatever earlier pointer-moves of the gesture produced.
C29_MoveClampsSnapshot ==
  [][\A pos \in Points :
       (Moving /\ handleWindowMouseMove(pos)) =>
         /\ optimisticCrop' = Some(MovedSnapshot(pos))
         /\ interaction' = interaction]_vars

\* a second pointer-move of one gesture stopped the region at the far edge
C29_Witness ==
  /\ Moving
  /\ optimisticCrop # None
  /\ optimisticCrop[1].x = 100 - interaction[1].initialCrop[1].width
  /\ optimisticCrop[1].x # interaction[1].initialCrop[1].x
  /\ optimisticCrop[1].y # interaction[1].initialCrop[1].y

\* the Group's virtual image as the editor shows it
VirtualImage(group) == generateStitchedCanvas(GroupSources(group.layerIds, layers))

\* the queue item is a region of a group, without a replacement, whose image
\* the StitchView has rendered
RenderedGroupItem(item) ==
  /\ FindIn(groups, item.layerId) # None
  /\ FindIn(FindIn(groups, item.layerId)[1].crops, item.cropId) # None
  /\ FindIn(FindIn(groups, item.layerId)[1].crops, item.cropId)[1].replacementSrc = 0
  /\ CacheKey(item) \in DOMAIN renderedImages

\* C30: for a queued Group region without replacementSrc, the image it is
\* cropped from for the stitch queue is the Group's virtual image shown in the
\* editor: the horizontal stitch of the members in layerIds order, with the
\* composite of every member that has replacements.
C30_QueueCutsFromVirtualImage ==
  \A i \in DOMAIN stitchItems :
    RenderedGroupItem(stitchItems[i]) =>
      renderedImages[CacheKey(stitchItems[i])].source
        = <<VirtualImage(FindIn(groups, stitchItems[i].layerId)[1])>>

\* the region list of the layer or group `id`, empty when there is no such owner
OwnerCrops(ls, gs, id) ==
  IF FindIn(ls, id) # None THEN FindIn(ls, id)[1].crops
  ELSE IF FindIn(gs, id) # None THEN FindIn(gs, id)[1].crops
  ELSE <<>>

\* list `after` is list `before` with the replacement of region cropId set to file
StoresOnly(before, after, cropId, file) ==
  /\ Len(after) = Len(before)
  /\ \A i \in DOMAIN before :
       after[i] = IF before[i].id = cropId
                  THEN [before[i] EXCEPT !.replacementSrc = file]
                  ELSE before[i]

\* C31: storing an uploaded replacement for region R sets R's replacementSrc
\* to the uploaded data and leaves every other region of the owner, and R's
\* other fields, as they were immediately before the store, also when the
\* owner's region list changed between picking the file and the end of the
\* asynchronous file read.
C31_StoreKeepsCurrentRegions ==
  [][\A r \in pendingReads :
       ReplacementLoaded(r) =>
         StoresOnly(OwnerCrops(layers, groups, r.layer.id),
                    OwnerCrops(layers', groups', r.layer.id), r.cropId, r.file)]_vars

\* a step of the region editor on the virtual image of the displayed group:
\* a gesture from pointer-down to pointer-up, the toolbar's lock and delete
\* buttons and the Delete key
ProxyRegionStep ==
  /\ OnProxy
  /\ \/ \E pos \in Points : handleMouseDown(pos)
     \/ \E pos \in Points : \E i \in DOMAIN displayedCrops :
          handleCropMouseDown(displayedCrops[i], pos)
     \/ \E h \in Handles : \E i \in DOMAIN displayedCrops :
          handleResizeMouseDown(displayedCrops[i], h)
     \/ \E pos \in Points : handleWindowMouseMove(pos)
     \/ \E pos \in Points : handleWindowMouseUp(pos)
     \/ handleLockToggle
     \/ DeleteButton
     \/ handleKeyDown

\* nothing of the asset graph changed but, at most, the region list of group id
OnlyCropsOfGroup(id) ==
  /\ layers' = layers
  /\ Len(groups') = Len(groups)
  /\ \A i \in DOMAIN groups :
       IF groups[i].id = id
       THEN groups'[i] = [groups[i] EXCEPT !.crops = groups'[i].crops]
       ELSE groups'[i] = groups[i]

\* C32: creating, moving, resizing, locking, deleting or replacing a region
\* on a Group's virtual image changes only that Group's region list: every
\* Layer's region list, the Group's layerIds and every other Group are
\* unchanged.
C32_GroupRegionEditsStayInGroup ==
  [][/\ ProxyRegionStep => OnlyCropsOfGroup(activeAssetId)
     /\ \A r \in pendingReads :
          (r.key = "proxy" /\ ReplacementLoaded(r)) => OnlyCropsOfGroup(r.layer.id)]_vars

\* a parent group and its subgroup both own a region, the subgroup's replaced
C32_Witness ==
  /\ OnProxy
  /\ Len(groups) = 2
  /\ \A i \in DOMAIN groups : groups[i].crops # <<>>
  /\ activeGroup[1].crops[1].replacementSrc # 0
  /\ \E i \in DOMAIN groups : groups[i].id # activeAssetId
                              /\ groups[i].crops[1].replacementSrc = 0

GraphAndQueueUnchanged == layers' = layers /\ groups' = groups /\ stitchItems' = stitchItems

\* a move or resize gesture whose region is no longer in the displayed owner's list
GestureRegionGone ==
  /\ interaction # None
  /\ interaction[1].mode # "create"
  /\ FindIn(CropperLayer.crops, interaction[1].activeId) = None

StaleCommit == GestureRegionGone /\ \E pos \in Points : handleWindowMouseUp(pos)

\* the replacement store of a read whose owner was deleted: handleUpdateLayer or
\* handleUpdateGroupCrops with an id that no longer exists
StaleRegionUpdate ==
  \E r \in pendingReads :
    /\ r.layer.id \notin LayerIds \cup GroupIds
    /\ ReplacementLoaded(r)

StaleUngroup == \E id \in StaleIds : CallUngroup(id)

StaleReorder ==
  \E id \in StaleIds, from \in 1..MaxAssets, to \in 1..MaxAssets : CallReorderGroup(id, from, to)

\* C33: an operation given a stale id changes nothing: committing a gesture
\* whose region is no longer in the owner's list, updating a Layer or a
\* Group's regions by an id that no longer exists, and ungrouping or
\* reordering a Group id that no longer exists all leave the layers, groups
\* and stitch queue unchanged.
C33_StaleIdChangesNothing ==
  [][(StaleCommit \/ StaleRegionUpdate \/ StaleUngroup \/ StaleReorder)
       => GraphAndQueueUnchanged]_vars

\* the integer nearest to a / b (a tie going up), for naturals a and b > 0
NearestTo(a, b) == (2 * a + b) \div (2 * b)

\* the side asked for: max(1, round(percentage / 100 * side)) on the percentage
\* num / den
SideAsked(p, side) == Max(1, NearestTo(p[1] * side, 100 * p[2]))

CropOutputs == IF raster.op = "cropImage" THEN raster.output ELSE <<>>

IdleHasNoEphemeralRegion ==
  interaction = None => (optimisticCrop = None /\ tempSelection = None)

\* the one gesture has one region: the preview while creating, the optimistic
\* copy of the region it took hold of otherwise
OneGestureRegion ==
  interaction # None =>
    IF interaction[1].mode = "create"
    THEN optimisticCrop = None /\ tempSelection # None
    ELSE /\ tempSelection = None
         /\ optimisticCrop # None
         /\ optimisticCrop[1].id = interaction[1].activeId

PointerUpEndsGesture ==
  \A pos \in Points : handleWindowMouseUp(pos) => interaction' = None

ViewAtRest == activeTab = "stitch" /\ loadRuns = {} /\ previewRuns = {}

CacheIsComplete ==
  \A i \in DOMAIN stitchItems :
    Resolves(stitchItems[i].layerId, stitchItems[i].cropId) => CacheKey(stitchItems[i]) \in DOMAIN renderedImages

\* the rendered images of the queue items, in queue order
QueueImages == [i \in DOMAIN stitchItems |-> renderedImages[CacheKey(stitchItems[i])]]

PreviewIsQueue ==
  (stitchItems # <<>>
     /\ \A i \in DOMAIN stitchItems : Resolves(stitchItems[i].layerId, stitchItems[i].cropId)) =>
     stitchedPreviewSrc = Some(generateStitchedCanvas(QueueImages))

\* C36: once the stitch queue, layers and groups stop changing and all started
\* decodes are complete, the rendered-image cache has an entry for every queue
\* item whose owner and region resolve and the preview is the horizontal
\* stitch of all queue items in queue order, under every interleaving of
\* overlapping cache-loading runs and preview generations.
C36_PreviewSettlesOnQueue == ViewAtRest => (CacheIsComplete /\ PreviewIsQueue)

\* the layers whose rasters were drawn into a stitched image
LayersDrawnInto(image) == {image.items[k].base : k \in DOMAIN image.items}

\* C37: the virtual image used as the editing surface for the active Group G
\* was computed from G's own members: after the active asset switches from
\* Group A to Group B, no region gesture on B runs against an image computed
\* from A's members, and a recomputation started for A never becomes B's
\* stored virtual image.
OfActiveGroup(image) == LayersDrawnInto(image) \subseteq Range(activeGroup[1].layerIds)

C37_VirtualImageIsOfActiveGroup ==
  /\ [](OnProxy => OfActiveGroup(stitchedData[1]))
  /\ [][\A srcs \in generations :
          (GenerationLoaded(srcs) /\ EditorKind(layers, groups, activeAssetId, activeTab) = "group")
             => OfActiveGroup(generateStitchedCanvas(srcs))]_vars

\* every item of the layout has a width and a height above zero
PositiveSizes ==
  \A i \in DOMAIN LayoutRows : \A k \in DOMAIN LayoutRows[i].items :
    /\ Compare(LayoutRows[i].items[k].width, Zero) > 0
    /\ Compare(LayoutRows[i].items[k].height, Zero) > 0

\* every item of the layout ends inside the canvas, right and bottom
InsideCanvas ==
  \A i \in DOMAIN LayoutRows : \A k \in DOMAIN LayoutRows[i].items :
    /\ Compare(Add(LayoutRows[i].items[k].x, LayoutRows[i].items[k].width),
               FromInt(raster.output.canvas.width)) <= 0
    /\ Compare(Add(LayoutRows[i].items[k].y, LayoutRows[i].items[k].height),
               FromInt(raster.output.canvas.height)) <= 0

\* every row but the last is at most targetRowHeight high
ClosedRowsAtMostTarget ==
  \A i \in DOMAIN LayoutRows :
    i < Len(LayoutRows) =>
      Compare(LayoutRows[i].height, FromInt(raster.input.settings.targetRowHeight)) <= 0

\* C38: for every list of images with positive aspect ratios and every setting
\* in the UI's ranges (containerWidth 800..2400, targetRowHeight 100..800,
\* spacing 0..100), every item laid out by justifiedLayout has width > 0 and
\* height > 0, lies inside the canvas, and every row that is not the last has
\* height at most targetRowHeight.
C38_ItemsPositiveInsideCanvas ==
  LayoutDone => PositiveSizes /\ InsideCanvas /\ ClosedRowsAtMostTarget

\* the result shown is the one of the current images and settings
ShowsLatest ==
  smartView.stitchedDataUrl =
    IF smartView.images = <<>> THEN None
    ELSE Some(SmartStitchUrl(smartView.images, smartView.settings))

SmartSettled ==
  /\ smartView.loads = {}
  /\ smartView.runs = {}
  /\ ~smartView.isProcessing
  /\ ShowsLatest

\* C39: every justified-layout run eventually completes and the view's
\* processing flag returns to false, also when an image fails to decode; and
\* when the images or settings change while a run is in flight, the result
\* finally shown is the one computed from the latest images and settings.
C39_RunsCompleteAndLatestShown == <>[]SmartSettled

IsPermutation(before, after) ==
  /\ Len(after) = Len(before)
  /\ \A x \in Range(before) \cup Range(after) : Occurrences(after, x) = Occurrences(before, x)

\* after is before with positions i and j exchanged
ItemsSwapped(before, after, i, j) ==
  /\ Len(after) = Len(before)
  /\ after[i] = before[j]
  /\ after[j] = before[i]
  /\ \A k \in DOMAIN before \ {i, j} : after[k] = before[k]

\* after is before without its item at index
Removed(before, after, index) ==
  /\ Len(after) = Len(before) - 1
  /\ \A k \in 1..(index - 1) : after[k] = before[k]
  /\ \A k \in index..Len(after) : after[k] = before[k + 1]

GraphUnchanged == layers' = layers /\ groups' = groups

\* C40: the stitch queue's own operations keep its contents: move-left/right
\* swaps two adjacent items and is a no-op at either end, reorder(from, to)
\* yields a permutation of the queue, and remove(index) removes exactly the
\* item at that index; none of them changes any Layer, Group or region,
\* including the isStitched flag of the region whose item was removed.
C40_QueueOperationsKeepContents ==
  [][/\ \A index \in 1..MaxQueue :
          handleRemoveItem(index) =>
            Removed(stitchItems, stitchItems', index) /\ GraphUnchanged
     /\ \A index \in 1..MaxQueue, direction \in {-1, 1} :
          handleMoveItem(index, direction) =>
            /\ GraphUnchanged
            /\ IF index + direction \in DOMAIN stitchItems
               THEN ItemsSwapped(stitchItems, stitchItems', index, index + direction)
               ELSE stitchItems' = stitchItems
     /\ \A from \in 1..MaxQueue, to \in 1..MaxQueue :
          handleReorder(from, to) =>
            /\ IsPermutation(stitchItems, stitchItems')
            /\ stitchItems'[to] = stitchItems[from]
            /\ GraphUnchanged]_vars

\* the second of two queued regions was taken off the queue: one item is
\* left, and both regions still carry the queued flag
C40_Witness ==
  /\ Len(layers) = 1
  /\ Len(layers[1].crops) = 2
  /\ \A i \in 1..2 : layers[1].crops[i].isStitched
  /\ Len(stitchItems) = 1
  /\ stitchItems[1].cropId = layers[1].crops[1].id

====
